---- MODULE Spec2Model ----
(***************************************************************************)
(* A model of the spcasm core: the segmented code emitter with its label   *)
(* resolution passes and the segment combiner (assembler/mod.rs), the      *)
(* range slicing of included binary data (assembler/directive.rs and       *)
(* assemble_macro), and the include handling of Environment::parse         *)
(* (sema/mod.rs and parser/mod.rs).                                         *)
(***************************************************************************)
EXTENDS Integers, Sequences, FiniteSets, TLC

VARIABLES
    \* ---- assemble(): input, progress and result ----
    instructions,           \* the program elements handed to assemble()
    index,                  \* 1-based position of the next element of the for loop
    segments,               \* AssembledData.segments: origin -> sequence of slots
    current_segment_start,  \* AssembledData.current_segment_start
    should_stop,            \* AssembledData.should_stop
    location,               \* label -> resolved location, or NoLocation
    pass_count,             \* the local pass_count of assemble()
    passes_executed,        \* number of calls of execute_label_resolution_pass
    last_pass,              \* what the most recent pass did and returned
    pc,                     \* position inside assemble()
    result,                 \* return value of assemble() / combine_segments()
    \* ---- range slicing ----
    slice_data,             \* the data handed to the slicing code
    slice_range,            \* Option<SourceSpan>: NoRange or [offset, len]
    slice_result,           \* outcome of the slicing
    \* ---- Environment::parse with source includes ----
    variant,                \* which revision of parse is running
    includes,               \* file -> sequence of files named by its include directives
    files,                  \* Environment.files: the set of inserted file names
    content,                \* file -> the IncludeSource elements still in its content
    stack,                  \* the active parse calls, innermost last
    parse_result,           \* outcome of the top-level parse
    cycle_errors,           \* number of IncludeCycle errors constructed
    \* ---- the sample_table directive ----
    table_origin,           \* current_segment_start, or NoSegment
    table_segment,          \* the bytes of the current segment
    table_auto_align,       \* DirectiveValue::SampleTable { auto_align }
    table_start,            \* the address at which the table was emitted
    table_result,           \* outcome of assemble_directive
    \* ---- the global label list of the environment ----
    label_variant,          \* which revision of get_global_label is running
    globals,                \* Environment.globals (labels in parser.rs)
    label_call,             \* the arguments of the most recent get_global_label
    label_handle,           \* the label it returned: its position in globals
    label_repeated,         \* the most recent call repeated the one before it
    linked_files,           \* files whose fill_in_reference_links has run
    split_done,             \* split_into_segments has run
    \* ---- expand_user_macros ----
    user_macros,            \* macro name -> formal argument count and body
    macro_source,           \* the content expand_user_macros was called on
    macro_content,          \* self.content
    macro_index,            \* the local index, counted from 0
    macro_end_stack,        \* the local macro_end_stack
    macro_result,           \* outcome of expand_user_macros
    \* ---- optimize_direct_page_labels ----
    dp_segments,            \* segments.segments: origin -> sequence of elements
    max_coercion_passes,    \* options.maximum_reference_resolution_passes()
    referenced_objects,     \* the local referenced_objects
    iteration,              \* the local iteration
    change,                 \* the local change
    dp_pc,                  \* position inside optimize_direct_page_labels
    \* ---- auto-trim of assemble_brr ----
    trim_samples,           \* sample_data before the trim
    trim_auto,              \* the auto_trim flag of the directive
    trim_result,            \* whether the trim has run, and sample_data after it
    \* ---- the locks taken by Environment::parse ----
    lk_includes,            \* file -> the files its include directives name
    lk_files,               \* Environment.files: the names inserted so far
    lk_content,             \* file -> the IncludeSource elements left in its content
    lk_stack,               \* the files of the active parse calls, innermost last
    lk_pc,                  \* position of the thread
    lk_locks,               \* the guards the thread holds, and whether it is stuck
    lk_result               \* outcome of the top-level parse

asm_vars == <<instructions, index, segments, current_segment_start, should_stop,
              location, pass_count, passes_executed, last_pass, pc, result>>
slice_vars == <<slice_data, slice_range, slice_result>>
include_vars == <<variant, includes, files, content, stack, parse_result, cycle_errors>>
vars == <<instructions, index, segments, current_segment_start, should_stop,
          location, pass_count, passes_executed, last_pass, pc, result,
          slice_data, slice_range, slice_result,
          variant, includes, files, content, stack, parse_result, cycle_errors,
          table_origin, table_segment, table_auto_align, table_start, table_result,
          label_variant, globals, label_call, label_handle, label_repeated, linked_files, split_done,
          user_macros, macro_source, macro_content, macro_index, macro_end_stack, macro_result,
          dp_segments, max_coercion_passes, referenced_objects, iteration, change, dp_pc,
          trim_samples, trim_auto, trim_result,
          lk_includes, lk_files, lk_content, lk_stack, lk_pc, lk_locks, lk_result>>
table_vars == <<table_origin, table_segment, table_auto_align, table_start, table_result>>
label_vars == <<label_variant, globals, label_call, label_handle, label_repeated, linked_files, split_done>>
macro_vars == <<user_macros, macro_source, macro_content, macro_index, macro_end_stack, macro_result>>
dp_vars == <<dp_segments, max_coercion_passes, referenced_objects, iteration, change, dp_pc>>
trim_vars == <<trim_samples, trim_auto, trim_result>>
lock_vars == <<lk_includes, lk_files, lk_content, lk_stack, lk_pc, lk_locks, lk_result>>
late_vars == <<trim_vars, lock_vars>>
\* The variables of the parts that follow the include handling.
rest_vars == <<table_vars, label_vars, macro_vars, dp_vars, late_vars>>

----------------------------------------------------------------------------
(* Bounds of the model. *)

\* Longest program handed to assemble().
MaxProgramLen == 3

\* Longest data handed to the slicing code, largest range offset and length.
MaxDataLen == 6
MaxOffset == 7
MaxRangeLen == 4

\* Most include directives in one file, and the deepest nesting of parse calls
\* the model follows (deeper than any nesting the files allow).
MaxIncludes == 2
MaxStackDepth == 4

(* Program constants. *)

\* Stands for 2^64, the modulus of usize arithmetic in release builds.
UsizeModulus == 1073741824

\* Maximum number of resolution passes.
MAX_PASSES == 10
\* Opcodes used by the modelled instructions.
OpcodeNop == 0
OpcodeBra == 47
OpcodeMov1 == 170

NoLabel == "no label"
NoLocation == -1
Labels == {"main", "loop"}
\* Segment origins an org directive may name.
Origins == {0, 1, 512}
\* Literal operands of branches and of bit instructions.
BranchLiterals == {3}
AddressLiterals == {4660, 8192}
BitIndices == {2}

----------------------------------------------------------------------------
(* Number: an operand expression, a literal or a reference to a label. *)

Literal(value) == [kind |-> "Literal", value |-> value, label |-> NoLabel]
LabelNumber(label) == [kind |-> "Label", value |-> 0, label |-> label]

\* Number::try_resolve: a label with a location becomes a literal.
NumberTryResolve(number, loc) ==
    IF number.kind = "Label" /\ loc[number.label] # NoLocation
    THEN Literal(loc[number.label])
    ELSE number

\* Number::first_label
FirstLabel(number) == number.label

----------------------------------------------------------------------------
(* MemoryValue and LabeledMemoryValue. *)

Resolved(byte) ==
    [kind |-> "Resolved", byte |-> byte, number |-> Literal(0), param |-> 0]
NumberValue(number, byte) ==
    [kind |-> "Number", byte |-> 0, number |-> number, param |-> byte]
NumberRelative(number) ==
    [kind |-> "NumberRelative", byte |-> 0, number |-> number, param |-> 0]
NumberHighByteWithContainedBitIndex(number, bit_index) ==
    [kind |-> "NumberHighByteWithContainedBitIndex", byte |-> 0,
     number |-> number, param |-> bit_index]

LabeledMemoryValue(value, label, span) ==
    [value |-> value, label |-> label, instruction_location |-> span]

RECURSIVE Pow256(_)
Pow256(n) == IF n = 0 THEN 1 ELSE 256 * Pow256(n - 1)

\* Bitwise or of two naturals.
RECURSIVE BitOr(_, _)
BitOr(a, b) ==
    IF a = 0 THEN b
    ELSE IF b = 0 THEN a
    ELSE (IF (a % 2) + (b % 2) > 0 THEN 1 ELSE 0) + 2 * BitOr(a \div 2, b \div 2)

\* `(memory_location & (0xFF << (byte * 8))) >> (byte * 8)) as u8`
ResolveNumberByte(memory_location, byte) == (memory_location \div Pow256(byte)) % 256

\* `(label_memory_address - (own_memory_address + 1)) as u8`
ResolveRelativeWrong(label_memory_address, own_memory_address) ==
    (label_memory_address - own_memory_address) % 256
ResolveRelative(label_memory_address, own_memory_address) ==
    (label_memory_address - (own_memory_address + 1)) % 256

\* `((label_memory_address & 0x1F00) >> 8) as u8 | (bit_index << 5)`
ResolveHighByteWithBitIndex(label_memory_address, bit_index) ==
    BitOr((label_memory_address \div 256) % 32, (bit_index * 32) % 256)

\* MemoryValue::try_resolve
MemoryValueTryResolve(value, own_memory_address, loc) ==
    LET number == NumberTryResolve(value.number, loc) IN
    CASE value.kind = "Resolved" -> value
      [] value.kind = "Number" ->
            IF number.kind = "Literal"
            THEN Resolved(ResolveNumberByte(number.value, value.param))
            ELSE NumberValue(number, value.param)
      [] value.kind = "NumberRelative" ->
            IF number.kind = "Literal"
            THEN Resolved(ResolveRelative(number.value, own_memory_address))
            ELSE NumberRelative(number)
      [] value.kind = "NumberHighByteWithContainedBitIndex" ->
            IF number.kind = "Literal"
            THEN Resolved(ResolveHighByteWithBitIndex(number.value, value.param))
            ELSE NumberHighByteWithContainedBitIndex(number, value.param)

----------------------------------------------------------------------------
(* AssembledData: appending to the current segment. *)

\* AssembledData::new_segment: BTreeMap::insert replaces an existing entry.
NewSegmentKeeping(segs, segment_start) ==
    [o \in (DOMAIN segs) \cup {segment_start} |->
        IF o \in DOMAIN segs THEN segs[o] ELSE <<>>]
NewSegment(segs, segment_start) ==
    [o \in (DOMAIN segs) \cup {segment_start} |->
        IF o = segment_start THEN <<>> ELSE segs[o]]

\* current_segment_mut().push(..)
Push(segs, cur, slot) == [segs EXCEPT ![cur] = Append(@, slot)]

\* AssembledData::append
AppendByte(segs, cur, value, label, span) ==
    Push(segs, cur, LabeledMemoryValue(Resolved(value), label, span))

\* AssembledData::append_8_bits: the value is truncated to 8 bits.
Append8Bits(segs, cur, value, label, span) ==
    AppendByte(segs, cur, value % 256, label, span)

\* AssembledData::append_16_bits: little endian, truncated to 16 bits.
Append16Bits(segs, cur, value, label, span) ==
    AppendByte(AppendByte(segs, cur, value % 256, label, span),
               cur, (value \div 256) % 256, NoLabel, span)

\* AssembledData::append_8_bits_unresolved
Append8BitsUnresolved(segs, cur, value, byte, label, span) ==
    Push(segs, cur, LabeledMemoryValue(NumberValue(value, byte), label, span))

\* AssembledData::append_relative_unresolved
AppendRelativeUnresolved(segs, cur, value, span) ==
    Push(segs, cur, LabeledMemoryValue(NumberRelative(value), NoLabel, span))

\* AssembledData::append_unresolved_with_bit_index
AppendUnresolvedWithBitIndex(segs, cur, value, bit_index, span) ==
    Push(segs, cur,
         LabeledMemoryValue(NumberHighByteWithContainedBitIndex(value, bit_index),
                            NoLabel, span))

\* AssembledData::append_instruction
AppendInstruction(segs, cur, opcode, label, span) ==
    AppendByte(segs, cur, opcode, label, span)

\* AssembledData::append_instruction_with_16_bit_operand_and_bit_index
AppendInstructionWith16BitOperandAndBitIndex(segs, cur, opcode, operand, bit_index, label, span, loc) ==
    LET with_opcode == AppendByte(segs, cur, opcode, label, span)
        value == NumberTryResolve(operand, loc)
    IN  IF value.kind = "Literal"
        THEN Append16Bits(with_opcode, cur, BitOr(value.value, bit_index * 8192),
                          NoLabel, span)
        ELSE AppendUnresolvedWithBitIndex(
                 Append8BitsUnresolved(with_opcode, cur, value, 0, NoLabel, span),
                 cur, value, bit_index, span)

\* AssembledData::append_instruction_with_relative_label
AppendInstructionWithAbsoluteLabel(segs, cur, opcode, operand, label, span, loc) ==
    Append8BitsUnresolved(AppendByte(segs, cur, opcode, label, span), cur,
                          NumberTryResolve(operand, loc), 0, NoLabel, span)
AppendInstructionWithRelativeLabel(segs, cur, opcode, operand, label, span, loc) ==
    LET with_opcode == AppendByte(segs, cur, opcode, label, span)
        value == NumberTryResolve(operand, loc)
    IN  IF value.kind = "Literal"
        THEN Append8Bits(with_opcode, cur, value.value, NoLabel, span)
        ELSE AppendRelativeUnresolved(with_opcode, cur, value, span)

----------------------------------------------------------------------------
(* The traversal order of the segments map: ascending origin, then offset. *)

Min(S) == CHOOSE x \in S : \A y \in S : x <= y

RECURSIVE SortedOrigins(_)
SortedOrigins(S) ==
    IF S = {} THEN <<>> ELSE <<Min(S)>> \o SortedOrigins(S \ {Min(S)})

RECURSIVE PositionsReversed(_, _)
PositionsReversed(segs, origins) ==
    IF origins = <<>> THEN <<>>
    ELSE LET last == origins[Len(origins)]
             n == Len(segs[last])
         IN  [i \in 1..n |-> <<last, n + 1 - i>>]
             \o PositionsReversed(segs, SubSeq(origins, 1, Len(origins) - 1))
RECURSIVE Positions(_, _)
Positions(segs, origins) ==
    IF origins = <<>> THEN <<>>
    ELSE [i \in 1..Len(segs[Head(origins)]) |-> <<Head(origins), i>>]
         \o Positions(segs, Tail(origins))

----------------------------------------------------------------------------
(* AssembledData::execute_label_resolution_pass *)

\* LabeledMemoryValue::try_resolve: the new value and the returned flag.
DatumTryResolveRewriting(datum, own_memory_address, loc) ==
    [datum |-> [datum EXCEPT
                   !.value = IF @.kind = "Resolved"
                             THEN Resolved((@.byte + own_memory_address + 1) % 256)
                             ELSE MemoryValueTryResolve(@, own_memory_address, loc)],
     modified |-> TRUE]
DatumTryResolve(datum, own_memory_address, loc) ==
    IF datum.value.kind = "Resolved"
    THEN [datum |-> datum, modified |-> FALSE]
    ELSE [datum |-> [datum EXCEPT
                        !.value = MemoryValueTryResolve(@, own_memory_address, loc)],
          modified |-> TRUE]

\* One iteration of the inner loop, for the datum at offset pos[2] - 1 of the
\* segment with origin pos[1].
PassStep(st, pos) ==
    LET segment_start == pos[1]
        offset == pos[2] - 1
        datum == st.segs[segment_start][pos[2]]
        memory_address == segment_start + offset
        defines == datum.label # NoLabel /\ st.loc[datum.label] = NoLocation
        loc == IF defines THEN [st.loc EXCEPT ![datum.label] = memory_address]
               ELSE st.loc
        resolved == DatumTryResolve(datum, memory_address, loc)
    IN  [segs |-> [st.segs EXCEPT ![segment_start][pos[2]] = resolved.datum],
         loc |-> loc,
         had_modifications |-> st.had_modifications \/ defines \/ resolved.modified]

RECURSIVE PassFold(_, _)
PassFold(st, positions) ==
    IF positions = <<>> THEN st
    ELSE PassFold(PassStep(st, Head(positions)), Tail(positions))

\* `let mut had_modifications = true;`
InitialHadModifications == TRUE

ExecuteLabelResolutionPass(segs, loc) ==
    PassFold([segs |-> segs, loc |-> loc,
              had_modifications |-> InitialHadModifications],
             Positions(segs, SortedOrigins(DOMAIN segs)))

----------------------------------------------------------------------------
(* AssembledData::combine_segments *)

NoResult ==
    [kind |-> "none", data |-> <<>>, label |-> NoLabel, usage_location |-> 0,
     section_start |-> 0, section_end |-> 0]
OkResult(data) == [NoResult EXCEPT !.kind = "Ok", !.data = data]
SectionMismatch(section_start, section_end) ==
    [NoResult EXCEPT !.kind = "SectionMismatch", !.section_start = section_start,
                     !.section_end = section_end]
UnresolvedLabel(label, usage_location) ==
    [NoResult EXCEPT !.kind = "UnresolvedLabel", !.label = label,
                     !.usage_location = usage_location]

\* Vec::resize(new_len, 0)
ResizeWithoutFill(data, new_len) ==
    IF new_len <= Len(data) THEN SubSeq(data, 1, new_len) ELSE data
Resize(data, new_len) ==
    IF new_len <= Len(data) THEN SubSeq(data, 1, new_len)
    ELSE data \o [i \in 1..(new_len - Len(data)) |-> 0]

\* The offsets (1-based) of the slots of a segment that are not resolved.
UnresolvedSlots(segment_data) ==
    {i \in 1..Len(segment_data) : segment_data[i].value.kind # "Resolved"}

\* `try_collect` stops at the first slot that fails to resolve.
LastUnresolved(segment_data) ==
    CHOOSE i \in UnresolvedSlots(segment_data) :
        \A j \in UnresolvedSlots(segment_data) : j <= i
FirstUnresolved(segment_data) == Min(UnresolvedSlots(segment_data))

\* LabeledMemoryValue::try_as_resolved, for a slot that is not resolved.
TryAsResolvedError(lmv) ==
    UnresolvedLabel(FirstLabel(lmv.value.number), lmv.instruction_location)

\* `if *starting_address < all_data.len() as i64`
OverlapsOutputInclusive(starting_address, all_data) ==
    starting_address <= Len(all_data)
OverlapsOutput(starting_address, all_data) == starting_address < Len(all_data)

RECURSIVE CombineFrom(_, _, _)
CombineFrom(segs, origins, all_data) ==
    IF origins = <<>> THEN OkResult(all_data)
    ELSE LET starting_address == Head(origins)
             segment_data == segs[starting_address]
         IN  IF OverlapsOutput(starting_address, all_data)
             THEN SectionMismatch(starting_address, Len(all_data))
             ELSE IF UnresolvedSlots(segment_data) # {}
             THEN TryAsResolvedError(segment_data[FirstUnresolved(segment_data)])
             ELSE CombineFrom(segs, Tail(origins),
                      Resize(all_data, starting_address)
                      \o [i \in 1..Len(segment_data) |-> segment_data[i].value.byte])

CombineSegments(segs) == CombineFrom(segs, SortedOrigins(DOMAIN segs), <<>>)

----------------------------------------------------------------------------
(* The program elements handed to assemble(). *)

Element(type, address, label, operand, bit_index) ==
    [type |-> type, address |-> address, label |-> label, operand |-> operand,
     bit_index |-> bit_index]

OrgElements == {Element("Org", a, NoLabel, Literal(0), 0) : a \in Origins}
NopElements == {Element("Nop", 0, l, Literal(0), 0) : l \in Labels \cup {NoLabel}}
BranchOperands == {Literal(v) : v \in BranchLiterals} \cup {LabelNumber(l) : l \in Labels}
BranchElements == {Element("Bra", 0, NoLabel, n, 0) : n \in BranchOperands}
AddressOperands ==
    {Literal(v) : v \in AddressLiterals} \cup {LabelNumber(l) : l \in Labels}
Mov1Elements ==
    {Element("Mov1", 0, NoLabel, n, b) : n \in AddressOperands, b \in BitIndices}
EndElements == {Element("End", 0, NoLabel, Literal(0), 0)}

ProgramElements ==
    OrgElements \cup NopElements \cup BranchElements \cup Mov1Elements \cup EndElements

Programs == UNION {[1..n -> ProgramElements] : n \in 0..MaxProgramLen}

----------------------------------------------------------------------------
(* The other parts of the model at rest. *)

NoRange == [present |-> FALSE, offset |-> 0, len |-> 0]
NoSliceResult == [kind |-> "none", data |-> <<>>, by |-> "none"]
NoParseResult == "none"

SliceIdle ==
    /\ slice_data = <<>>
    /\ slice_range = NoRange
    /\ slice_result = NoSliceResult

IncludeIdle ==
    /\ variant = "sema"
    /\ includes = <<>>
    /\ files = {}
    /\ content = <<>>
    /\ stack = <<>>
    /\ parse_result = NoParseResult
    /\ cycle_errors = 0

NoSegment == -1
NoTableResult == [kind |-> "none", memory_address |-> 0]

TableIdle ==
    /\ table_origin = NoSegment
    /\ table_segment = <<>>
    /\ table_auto_align = FALSE
    /\ table_start = NoLocation
    /\ table_result = NoTableResult

NoCall == [name |-> "none", span |-> 0, usage_kind |-> "none"]
NoHandle == 0

LabelIdle ==
    /\ label_variant = "sema"
    /\ globals = <<>>
    /\ label_call = NoCall
    /\ label_handle = NoHandle
    /\ label_repeated = FALSE
    /\ linked_files = {}
    /\ split_done = FALSE

NoMacroResult == "none"

MacroIdle ==
    /\ user_macros = <<>>
    /\ macro_source = <<>>
    /\ macro_content = <<>>
    /\ macro_index = 0
    /\ macro_end_stack = <<>>
    /\ macro_result = NoMacroResult

DpIdle ==
    /\ dp_segments = <<>>
    /\ max_coercion_passes = 1
    /\ referenced_objects = <<>>
    /\ iteration = 1
    /\ change = TRUE
    /\ dp_pc = "idle"

NoTrimResult == [done |-> FALSE, data |-> <<>>]

TrimIdle ==
    /\ trim_samples = <<>>
    /\ trim_auto = FALSE
    /\ trim_result = NoTrimResult

\* No guard is held on any lock.
NoGuards == [read |-> <<>>, write |-> {}, blocked |-> FALSE]
NoLockResult == "none"

LockIdle ==
    /\ lk_includes = <<>>
    /\ lk_files = {}
    /\ lk_content = <<>>
    /\ lk_stack = <<>>
    /\ lk_pc = "idle"
    /\ lk_locks = NoGuards
    /\ lk_result = NoLockResult

LateIdle == TrimIdle /\ LockIdle

RestIdle ==
    /\ TableIdle
    /\ LabelIdle
    /\ MacroIdle
    /\ DpIdle
    /\ LateIdle

NoPass == [ran |-> FALSE, label_gained |-> FALSE, slot_changed |-> FALSE,
           returned |-> FALSE]

\* assemble(): AssembledData::new followed by data.new_segment(0).
AsmStart(program) ==
    /\ instructions = program
    /\ index = 1
    /\ segments = NewSegment(<<>>, 0)
    /\ current_segment_start = 0
    /\ should_stop = FALSE
    /\ location = [l \in Labels |-> NoLocation]
    /\ pass_count = 0
    /\ passes_executed = 0
    /\ last_pass = NoPass
    /\ pc = "assemble"
    /\ result = NoResult

Init ==
    /\ \E program \in Programs : AsmStart(program)
    /\ SliceIdle
    /\ IncludeIdle
    /\ RestIdle

----------------------------------------------------------------------------
(* assemble(): the loop over the program elements. *)

InLoopIgnoringStop ==
    /\ pc = "assemble"
    /\ index <= Len(instructions)
InLoop ==
    /\ pc = "assemble"
    /\ index <= Len(instructions)
    /\ ~should_stop

Consume(type) ==
    /\ InLoop
    /\ instructions[index].type = type
    /\ index' = index + 1
    /\ UNCHANGED <<instructions, location, pass_count, passes_executed, last_pass,
                   pc, result>>
    /\ UNCHANGED slice_vars
    /\ UNCHANGED include_vars
    /\ UNCHANGED rest_vars

\* MacroValue::Org
AssembleOrg ==
    /\ Consume("Org")
    /\ segments' = NewSegment(segments, instructions[index].address)
    /\ current_segment_start' = instructions[index].address
    /\ UNCHANGED should_stop

\* assemble_operandless_instruction, Mnemonic::Nop
AssembleNop ==
    /\ Consume("Nop")
    /\ segments' = AppendInstruction(segments, current_segment_start, OpcodeNop,
                                     instructions[index].label, index)
    /\ UNCHANGED <<current_segment_start, should_stop>>

\* A branch: append_instruction_with_relative_label
AssembleBranch ==
    /\ Consume("Bra")
    /\ segments' = AppendInstructionWithRelativeLabel(
                       segments, current_segment_start, OpcodeBra,
                       instructions[index].operand, instructions[index].label,
                       index, location)
    /\ UNCHANGED <<current_segment_start, should_stop>>

\* An absolute bit instruction: append_instruction_with_16_bit_operand_and_bit_index
AssembleBitInstruction ==
    /\ Consume("Mov1")
    /\ segments' = AppendInstructionWith16BitOperandAndBitIndex(
                       segments, current_segment_start, OpcodeMov1,
                       instructions[index].operand, instructions[index].bit_index,
                       instructions[index].label, index, location)
    /\ UNCHANGED <<current_segment_start, should_stop>>

\* MacroValue::End
AssembleEnd ==
    /\ Consume("End")
    /\ should_stop' = TRUE
    /\ UNCHANGED <<segments, current_segment_start>>

\* `while data.execute_label_resolution_pass() && pass_count < MAX_PASSES`
ResolutionPass ==
    /\ pc = "assemble"
    /\ index > Len(instructions) \/ should_stop
    /\ LET after == ExecuteLabelResolutionPass(segments, location) IN
        /\ segments' = after.segs
        /\ location' = after.loc
        /\ passes_executed' = passes_executed + 1
        /\ last_pass' = [ran |-> TRUE,
                         label_gained |-> after.loc # location,
                         slot_changed |-> after.segs # segments,
                         returned |-> after.had_modifications]
        /\ IF after.had_modifications /\ pass_count < MAX_PASSES
           THEN pass_count' = pass_count + 1 /\ pc' = pc
           ELSE pass_count' = pass_count /\ pc' = "combine"
    /\ UNCHANGED <<instructions, index, current_segment_start, should_stop, result>>
    /\ UNCHANGED slice_vars
    /\ UNCHANGED include_vars
    /\ UNCHANGED rest_vars

\* `data.combine_segments()`
Combine ==
    /\ pc = "combine"
    /\ result' = CombineSegments(segments)
    /\ pc' = "done"
    /\ UNCHANGED <<instructions, index, segments, current_segment_start, should_stop,
                   location, pass_count, passes_executed, last_pass>>
    /\ UNCHANGED slice_vars
    /\ UNCHANGED include_vars
    /\ UNCHANGED rest_vars

Next ==
    \/ AssembleOrg
    \/ AssembleNop
    \/ AssembleBranch
    \/ AssembleBitInstruction
    \/ AssembleEnd
    \/ ResolutionPass
    \/ Combine

Spec == Init /\ [][Next]_vars

----------------------------------------------------------------------------
(* Vocabulary of the properties of assemble(). *)

Done == pc = "done"
Succeeded == Done /\ result.kind = "Ok"

\* The memory address of the slot at 1-based offset i of the segment at origin o.
Address(o, i) == o + i - 1

\* The byte of the output at a memory address.
OutputAt(address) == result.data[address + 1]

Covered(address) ==
    \E o \in DOMAIN segments : \E i \in 1..Len(segments[o]) : Address(o, i) = address

HighestOrigin == CHOOSE o \in DOMAIN segments : \A p \in DOMAIN segments : p <= o

\* The end of the byte range [o, o + length) of the segment at origin o.
SegmentEnd(o) == o + Len(segments[o])

RangesOverlap(o, p) ==
    \E a \in o..(SegmentEnd(o) - 1) : a >= p /\ a < SegmentEnd(p)

\* The segment at o starts below the end of the segment that precedes it in
\* origin order.
StartsInsidePredecessor(o) ==
    \E p \in DOMAIN segments :
        /\ p < o
        /\ \A q \in DOMAIN segments : q < o => q <= p
        /\ o < SegmentEnd(p)

AllResolvedBefore(o) ==
    \A p \in DOMAIN segments : p < o => UnresolvedSlots(segments[p]) = {}

SomeUnresolved == \E o \in DOMAIN segments : UnresolvedSlots(segments[o]) # {}

\* The first segment, in origin order, that holds an unresolved slot.
FirstUnresolvedOrigin ==
    Min({o \in DOMAIN segments : UnresolvedSlots(segments[o]) # {}})

\* The slot at offset i of segment o is the first slot emitted for element k.
StartsInstruction(o, i, k) ==
    /\ segments[o][i].instruction_location = k
    /\ i = 1 \/ segments[o][i - 1].instruction_location # k

\* The opcode slots (segment, offset, element) of the elements of a type.
InstructionStarts(type) ==
    {t \in UNION {{<<o, i, segments[o][i].instruction_location>> :
                      i \in 1..Len(segments[o])} : o \in DOMAIN segments} :
        /\ StartsInstruction(t[1], t[2], t[3])
        /\ instructions[t[3]].type = type}

\* The value an operand stands for once all labels have their locations.
TargetValue(operand) ==
    IF operand.kind = "Literal" THEN operand.value ELSE location[operand.label]

----------------------------------------------------------------------------
\* C1: when combine_segments succeeds the output is the memory image: every
\* slot's byte lies at its segment's origin plus its offset, every position no
\* slot covers is 0, and the output length is the highest origin plus the
\* length of that segment.
C1_OutputIsMemoryImage ==
    Succeeded =>
        /\ \A o \in DOMAIN segments : \A i \in 1..Len(segments[o]) :
               OutputAt(Address(o, i)) = segments[o][i].value.byte
        /\ \A a \in 0..(Len(result.data) - 1) : ~Covered(a) => OutputAt(a) = 0
        /\ Len(result.data) = SegmentEnd(HighestOrigin)

\* Two non-empty segments with a gap between them were combined.
C1_Witness ==
    /\ Succeeded
    /\ \E o, p \in DOMAIN segments :
           /\ o < p
           /\ Len(segments[o]) > 0
           /\ Len(segments[p]) > 0
           /\ SegmentEnd(o) < p
           /\ OutputAt(p) # 0

\* C2 as stated: SectionMismatch whenever two byte ranges overlap, and never
\* when no two byte ranges overlap.
C2_Original ==
    Done =>
        /\ (\E o, p \in DOMAIN segments : o # p /\ RangesOverlap(o, p))
               => result.kind = "SectionMismatch"
        /\ (\A o, p \in DOMAIN segments : o # p => ~RangesOverlap(o, p))
               => result.kind # "SectionMismatch"

\* C2 amended: combine_segments reports SectionMismatch exactly when some
\* segment (empty or not) starts below the end of the segment preceding it in
\* origin order and every slot of the segments before it is resolved; the
\* error names the first such segment and the end of its predecessor.
C2_MismatchIffStartsInsidePredecessor ==
    Done =>
        /\ result.kind = "SectionMismatch"
               <=> \E o \in DOMAIN segments :
                       StartsInsidePredecessor(o) /\ AllResolvedBefore(o)
        /\ result.kind = "SectionMismatch" =>
               /\ result.section_start \in DOMAIN segments
               /\ StartsInsidePredecessor(result.section_start)
               /\ \A p \in DOMAIN segments :
                      p < result.section_start => ~StartsInsidePredecessor(p)
               /\ \E p \in DOMAIN segments :
                      p < result.section_start /\ result.section_end = SegmentEnd(p)

\* An empty segment inside another segment's range was reported.
C2_Witness ==
    /\ Done
    /\ result.kind = "SectionMismatch"
    /\ Len(segments[result.section_start]) = 0

\* C3 as stated: an unresolved slot always yields UnresolvedLabel for the first
\* unresolved slot in address order.
C3_Original ==
    (Done /\ SomeUnresolved) =>
        /\ result.kind = "UnresolvedLabel"
        /\ \E o \in DOMAIN segments : \E i \in UnresolvedSlots(segments[o]) :
               /\ \A p \in DOMAIN segments : \A j \in UnresolvedSlots(segments[p]) :
                      Address(o, i) <= Address(p, j)
               /\ result.label = FirstLabel(segments[o][i].value.number)
               /\ result.usage_location = segments[o][i].instruction_location

\* C3 amended: with an unresolved slot left no binary is produced; the error is
\* UnresolvedLabel for the first unresolved slot in traversal order (ascending
\* segment origin, then offset), naming the first label of its expression,
\* unless a segment at or before that slot's segment starts below the end of
\* its predecessor, in which case it is SectionMismatch.
C3_UnresolvedSlotIsAnError ==
    (Done /\ SomeUnresolved) =>
        LET o == FirstUnresolvedOrigin
            i == Min(UnresolvedSlots(segments[o]))
        IN  IF \E p \in DOMAIN segments : p <= o /\ StartsInsidePredecessor(p)
            THEN result.kind = "SectionMismatch"
            ELSE /\ result.kind = "UnresolvedLabel"
                 /\ result.label = FirstLabel(segments[o][i].value.number)
                 /\ result.usage_location = segments[o][i].instruction_location

\* Two slots with different labels stayed unresolved and the first was reported.
C3_Witness ==
    /\ Done
    /\ result.kind = "UnresolvedLabel"
    /\ \E o \in DOMAIN segments : \E i, j \in UnresolvedSlots(segments[o]) :
           /\ i < j
           /\ result.label = FirstLabel(segments[o][i].value.number)
           /\ result.label # FirstLabel(segments[o][j].value.number)

\* C4 as stated: the operand byte of every branch at P with target T, literal
\* or label, is (T - (P + 2)) mod 256.
C4_Original ==
    Succeeded =>
        \A t \in InstructionStarts("Bra") :
            OutputAt(Address(t[1], t[2]) + 1)
                = (TargetValue(instructions[t[3]].operand)
                   - (Address(t[1], t[2]) + 2)) % 256

\* C4 amended: for a branch at P whose operand is a label resolved in a later
\* pass to T the operand byte is (T - (P + 2)) mod 256; for a branch whose
\* operand is a literal T the operand byte is T mod 256.
C4_BranchOperand ==
    Succeeded =>
        \A t \in InstructionStarts("Bra") :
            LET operand == instructions[t[3]].operand
                P == Address(t[1], t[2])
            IN  /\ OutputAt(P) = OpcodeBra
                /\ OutputAt(P + 1) =
                       IF operand.kind = "Literal"
                       THEN operand.value % 256
                       ELSE (location[operand.label] - (P + 2)) % 256

\* A backward and a forward branch to labels were resolved.
C4_Witness ==
    /\ Succeeded
    /\ \E t, u \in InstructionStarts("Bra") :
           /\ instructions[t[3]].operand.kind = "Label"
           /\ instructions[u[3]].operand.kind = "Label"
           /\ location[instructions[t[3]].operand.label] < Address(t[1], t[2])
           /\ location[instructions[u[3]].operand.label] > Address(u[1], u[2])

\* The program of the scenario: org $0200, .loop: nop, bra .loop
LoopProgram ==
    <<Element("Org", 512, NoLabel, Literal(0), 0),
      Element("Nop", 0, "loop", Literal(0), 0),
      Element("Bra", 0, NoLabel, LabelNumber("loop"), 0)>>

\* C5 as stated: assembling org $0200, a nop labelled .loop and bra .loop
\* yields the bytes 00 2F FE at addresses 0x0200..0x0202.
C5_Original ==
    (Done /\ instructions = LoopProgram) =>
        /\ result.kind = "Ok"
        /\ OutputAt(512) = 0
        /\ OutputAt(513) = 47
        /\ OutputAt(514) = 254

\* C5 amended: assembling org $0200, a nop labelled .loop and bra .loop yields
\* the bytes 00 2F FD at addresses 0x0200..0x0202: the branch operand is the
\* offset -3 from the address after the operand (0x0203) back to 0x0200.
C5_LoopScenario ==
    (Done /\ instructions = LoopProgram) =>
        /\ result.kind = "Ok"
        /\ Len(result.data) = 515
        /\ OutputAt(512) = 0
        /\ OutputAt(513) = 47
        /\ OutputAt(514) = 253

\* The scenario's program was assembled to the end.
C5_Witness == Done /\ instructions = LoopProgram /\ passes_executed > 0

\* C6 as stated: every absolute bit instruction with address A and bit index b
\* ends up as [opcode, A & 0xFF, ((A >> 8) & 0x1F) | (b << 5)], for a literal
\* A as well as for a label that resolves to A.
C6_Original ==
    Succeeded =>
        \A t \in InstructionStarts("Mov1") :
            LET A == TargetValue(instructions[t[3]].operand)
                b == instructions[t[3]].bit_index
                P == Address(t[1], t[2])
            IN  /\ OutputAt(P) = OpcodeMov1
                /\ OutputAt(P + 1) = A % 256
                /\ OutputAt(P + 2) = ((A \div 256) % 32) + b * 32

----------------------------------------------------------------------------
(* Slicing included data by an optional range. *)

Range(offset, len) == [present |-> TRUE, offset |-> offset, len |-> len]

\* The first n bytes 00 11 22 33 44 55 .. of the included file.
Blob(n) == [i \in 1..n |-> (i - 1) * 17]

SliceOk(data, by) == [kind |-> "Ok", data |-> data, by |-> by]
RangeOutOfBounds(by) == [kind |-> "RangeOutOfBounds", data |-> <<>>, by |-> by]
Panic(by) == [kind |-> "panic", data |-> <<>>, by |-> by]

MinOf(a, b) == IF a <= b THEN a ELSE b

\* usize::saturating_sub
SaturatingSub(a, b) == IF a >= b THEN a - b ELSE 0

\* usize subtraction without overflow checks
WrappingSub(a, b) == (a - b) % UsizeModulus

\* <[T]>::get(start .. end): None unless start <= end <= len
SliceGet(data, start, end, by) ==
    IF start <= end /\ end <= Len(data)
    THEN SliceOk(SubSeq(data, start + 1, end), by)
    ELSE RangeOutOfBounds(by)

\* AssembledData::slice_data_if_necessary
SliceDataIfNecessary(data, range) ==
    IF range.present
    THEN LET max_number_of_bytes == SaturatingSub(Len(data), range.offset)
         IN  SliceGet(data, range.offset,
                      MinOf(range.offset + range.len, max_number_of_bytes),
                      "slice_data_if_necessary")
    ELSE SliceOk(data, "slice_data_if_necessary")

\* assemble_macro, MacroValue::Include: `binary_data.len() - range.offset()`
\* panics when overflow checks are compiled in and wraps around otherwise.
MacroIncludeSlice(data, range, overflow_checks) ==
    IF range.present
    THEN IF overflow_checks /\ range.offset > Len(data)
         THEN Panic("assemble_macro")
         ELSE LET max_number_of_bytes == WrappingSub(Len(data), range.offset)
              IN  SliceGet(data, range.offset,
                           MinOf(range.offset + range.len, max_number_of_bytes),
                           "assemble_macro")
    ELSE SliceOk(data, "assemble_macro")

AsmIdle == AsmStart(<<>>)

SliceInit ==
    /\ AsmIdle
    /\ IncludeIdle
    /\ RestIdle
    /\ slice_data \in {Blob(n) : n \in 0..MaxDataLen}
    /\ slice_range \in {NoRange} \cup {Range(o, n) : o \in 0..MaxOffset, n \in 0..MaxRangeLen}
    /\ slice_result = NoSliceResult

\* DirectiveValue::Include: slice_data_if_necessary on the file's bytes
SliceDirective ==
    /\ slice_result = NoSliceResult
    /\ slice_result' = SliceDataIfNecessary(slice_data, slice_range)
    /\ UNCHANGED <<slice_data, slice_range>>
    /\ UNCHANGED asm_vars
    /\ UNCHANGED include_vars
    /\ UNCHANGED rest_vars

\* MacroValue::Include: the slicing inside assemble_macro
SliceMacro ==
    /\ slice_result = NoSliceResult
    /\ \E overflow_checks \in BOOLEAN :
           slice_result' = MacroIncludeSlice(slice_data, slice_range, overflow_checks)
    /\ UNCHANGED <<slice_data, slice_range>>
    /\ UNCHANGED asm_vars
    /\ UNCHANGED include_vars
    /\ UNCHANGED rest_vars

SliceNext == SliceDirective \/ SliceMacro

SliceSpec == SliceInit /\ [][SliceNext]_vars

Sliced == slice_result.kind # "none" /\ slice_range.present

\* C7 as stated: a range with offset o and length n with o + n <= L yields
\* exactly the n elements data[o .. o+n].
C7_Original ==
    (Sliced /\ slice_range.offset + slice_range.len <= Len(slice_data)) =>
        /\ slice_result.kind = "Ok"
        /\ slice_result.data = SubSeq(slice_data, slice_range.offset + 1,
                                      slice_range.offset + slice_range.len)

\* C8 as stated: with o <= L and o + n > L the result is data[o .. L] without
\* error; with o > L the outcome is a RangeOutOfBounds error, not a panic.
C8_Original ==
    Sliced =>
        /\ (slice_range.offset <= Len(slice_data)
            /\ slice_range.offset + slice_range.len > Len(slice_data)) =>
               /\ slice_result.kind = "Ok"
               /\ slice_result.data = SubSeq(slice_data, slice_range.offset + 1,
                                             Len(slice_data))
        /\ slice_range.offset > Len(slice_data) =>
               slice_result.kind = "RangeOutOfBounds"

----------------------------------------------------------------------------
(* Environment::parse and AssemblyFile::resolve_source_includes.            *)
(* Two revisions of parse are modelled: "sema" (sema/mod.rs) and "parser"   *)
(* (parser/mod.rs).  Of a file's content only its IncludeSource elements    *)
(* are kept, as the sequence of the files they name.                        *)

Files == {"a", "b", "c"}
Root == "a"
Variants == {"sema", "parser"}

IncludeLists == UNION {[1..n -> Files] : n \in 0..MaxIncludes}

\* A file is write-locked (mutably borrowed) while its parse call is between
\* `rc_file.write()` and the drop of that guard, i.e. while it is on the stack.
Locked(file, st) == \E i \in 1..Len(st) : st[i] = file

\* AssemblyFile::has_unresolved_source_includes
HasUnresolvedSourceIncludes(file, cont) == cont[file] # <<>>

\* Environment::find_file_by_source: "None", "Some" or "IncludeCycle"
FindFileUnlessLocked(file, fs, st) ==
    IF file \in fs /\ ~Locked(file, st) THEN "Some" ELSE "None"
FindFileBySource(file, fs, st) ==
    IF file \notin fs THEN "None"
    ELSE IF Locked(file, st) THEN "IncludeCycle"
    ELSE "Some"

\* Environment::parse, the branch for a file found in the table:
\* `try_read_recursive().is_some_and(has_unresolved_source_includes)` in
\* sema/mod.rs, `try_borrow().is_ok_and(has_unresolved_source_includes)` with
\* the branches swapped in parser/mod.rs.
AlreadyParsedOutcome(v, readable, has_unresolved) ==
    IF v = "sema"
    THEN IF readable /\ has_unresolved THEN "IncludeCycle" ELSE "Ok"
    ELSE IF readable /\ has_unresolved THEN "Ok" ELSE "IncludeCycle"

\* The outcome of the first statement of Environment::parse for a file:
\* "New" (parse it), "Ok" (return the existing file) or "IncludeCycle".
ParseLookup(v, file, fs, st, cont) ==
    LET found == FindFileBySource(file, fs, st) IN
    IF found = "None" THEN "New"
    ELSE IF found = "IncludeCycle" THEN "IncludeCycle"
    ELSE AlreadyParsedOutcome(v, ~Locked(file, st),
                              HasUnresolvedSourceIncludes(file, cont))

\* The file the next call of Environment::parse is for: the root for the
\* top-level call, else the first IncludeSource left in the file being parsed.
Calling == stack = <<>> /\ parse_result = NoParseResult
Including == stack # <<>> /\ content[stack[Len(stack)]] # <<>>
Target == IF stack = <<>> THEN Root ELSE Head(content[stack[Len(stack)]])

IncludeInit ==
    /\ AsmIdle
    /\ SliceIdle
    /\ RestIdle
    /\ variant \in Variants
    /\ includes \in [Files -> IncludeLists]
    /\ files = {}
    /\ content = [f \in Files |-> <<>>]
    /\ stack = <<>>
    /\ parse_result = NoParseResult
    /\ cycle_errors = 0

\* parse of a file that is not in the table: the file is inserted and its
\* includes are about to be resolved under its write lock.
ParseNewFile ==
    /\ Calling \/ Including
    /\ Len(stack) < MaxStackDepth
    /\ ParseLookup(variant, Target, files, stack, content) = "New"
    /\ files' = files \cup {Target}
    /\ content' = [content EXCEPT ![Target] = includes[Target]]
    /\ stack' = Append(stack, Target)
    /\ UNCHANGED <<variant, includes, parse_result, cycle_errors>>
    /\ UNCHANGED asm_vars
    /\ UNCHANGED slice_vars
    /\ UNCHANGED rest_vars

\* parse returns a file of the table; resolve_source_includes splices its
\* content in place of the include directive.
ParseKnownFile ==
    /\ Including
    /\ ParseLookup(variant, Target, files, stack, content) = "Ok"
    /\ content' = [content EXCEPT
                      ![stack[Len(stack)]] = content[Target] \o Tail(@)]
    /\ UNCHANGED <<variant, includes, files, stack, parse_result, cycle_errors>>
    /\ UNCHANGED asm_vars
    /\ UNCHANGED slice_vars
    /\ UNCHANGED rest_vars

\* parse fails with IncludeCycle; every caller propagates the error with `?`.
ParseIncludeCycle ==
    /\ Including
    /\ ParseLookup(variant, Target, files, stack, content) = "IncludeCycle"
    /\ stack' = <<>>
    /\ parse_result' = "IncludeCycle"
    /\ cycle_errors' = cycle_errors + 1
    /\ UNCHANGED <<variant, includes, files, content>>
    /\ UNCHANGED asm_vars
    /\ UNCHANGED slice_vars
    /\ UNCHANGED rest_vars

\* resolve_source_includes found no include directive left: parse returns the
\* file, and the including file splices its content in.
FinishParse ==
    /\ stack # <<>>
    /\ content[stack[Len(stack)]] = <<>>
    /\ stack' = SubSeq(stack, 1, Len(stack) - 1)
    /\ IF Len(stack) = 1
       THEN /\ parse_result' = "Ok"
            /\ content' = content
       ELSE /\ parse_result' = parse_result
            /\ content' = [content EXCEPT
                              ![stack[Len(stack) - 1]] =
                                  content[stack[Len(stack)]] \o Tail(@)]
    /\ UNCHANGED <<variant, includes, files, cycle_errors>>
    /\ UNCHANGED asm_vars
    /\ UNCHANGED slice_vars
    /\ UNCHANGED rest_vars

IncludeNext ==
    \/ ParseNewFile
    \/ ParseKnownFile
    \/ ParseIncludeCycle
    \/ FinishParse

IncludeSpec == IncludeInit /\ [][IncludeNext]_vars

\* The single thread keeps running until the top-level parse has returned.
FairIncludeSpec == IncludeSpec /\ WF_vars(IncludeNext)

----------------------------------------------------------------------------
(* Vocabulary of the include graph. *)

Successors(S) == {g \in Files : \E f \in S : \E i \in 1..Len(includes[f]) : includes[f][i] = g}

RECURSIVE ReachableFrom(_)
ReachableFrom(S) ==
    IF Successors(S) \subseteq S THEN S ELSE ReachableFrom(S \cup Successors(S))

OnCycle(f) == f \in ReachableFrom(Successors({f}))

CycleReachable == \E f \in ReachableFrom({Root}) : OnCycle(f)

ParseReturned == stack = <<>> /\ parse_result # NoParseResult

\* C9: with a cycle reachable from the root file the top-level parse
\* terminates, and its outcome is one IncludeCycle error, not a parsed file.
C9_CycleYieldsIncludeCycle ==
    (CycleReachable /\ Calling)
        ~> (ParseReturned /\ parse_result = "IncludeCycle" /\ cycle_errors = 1)

\* A cycle of two or more files, entered below the root, was reported.
C9_Witness ==
    /\ ParseReturned
    /\ parse_result = "IncludeCycle"
    /\ ~OnCycle(Root)
    /\ \A f \in Files : <<f>> # includes[f]
    /\ Cardinality(files) = 3

\* C10 as stated: parse returns a file that is in the table and fully parsed
\* without error, so that a top-level parse of an acyclic include graph never
\* ends in IncludeCycle.
C10_Original ==
    (ParseReturned /\ ~CycleReachable) => parse_result = "Ok"

----------------------------------------------------------------------------
(* Properties of the resolution passes and of the element loop. *)

\* A step that is one call of execute_label_resolution_pass.
PassRuns == passes_executed' = passes_executed + 1

\* The (origin, offset) pairs of all slots.
Slots == UNION {{<<o, i>> : i \in 1..Len(segments[o])} : o \in DOMAIN segments}

\* The slot was emitted for an operand that names a label.
EmittedForLabel(o, i) ==
    /\ i > 1
    /\ segments[o][i].instruction_location = segments[o][i - 1].instruction_location
    /\ instructions[segments[o][i].instruction_location].operand.kind = "Label"

\* C12: once a slot holds a resolved literal byte, no call of
\* execute_label_resolution_pass (and so no LabeledMemoryValue::try_resolve)
\* changes that byte: every pass leaves every resolved slot as it is.
C12_ResolvedBytesAreStable ==
    [][PassRuns =>
        \A s \in Slots :
            segments[s[1]][s[2]].value.kind = "Resolved" =>
                segments'[s[1]][s[2]].value = segments[s[1]][s[2]].value]_vars

\* A second pass has run over a slot that the first pass resolved from a label.
C12_Witness ==
    /\ passes_executed >= 2
    /\ \E s \in Slots :
        /\ EmittedForLabel(s[1], s[2])
        /\ segments[s[1]][s[2]].value.kind = "Resolved"

\* C13: after a resolution pass, every label attached to a slot has the slot's
\* memory address (segment origin plus offset) as its location.
C13_Original ==
    last_pass.ran =>
        \A s \in Slots :
            segments[s[1]][s[2]].label # NoLabel =>
                location[segments[s[1]][s[2]].label] = Address(s[1], s[2])

\* The first end directive of the program, or 0.
FirstEnd ==
    IF \E k \in 1..Len(instructions) : instructions[k].type = "End"
    THEN Min({k \in 1..Len(instructions) : instructions[k].type = "End"})
    ELSE 0

\* The shape of the segments: origins, lengths, attached labels and emitting
\* elements, everything but the values the passes resolve.
Shape(segs) ==
    [o \in DOMAIN segs |->
        [i \in 1..Len(segs[o]) |->
            <<segs[o][i].label, segs[o][i].instruction_location>>]]

\* C14: no element after an end directive contributes to the result: the loop
\* never moves past the end directive, no slot stems from an element behind it,
\* and once should_stop is set no step consumes an element, adds or removes a
\* slot or a segment, attaches a label or changes the current segment.
C14_NothingAfterEnd ==
    /\ [](FirstEnd # 0 =>
            /\ index <= FirstEnd + 1
            /\ index = FirstEnd + 1 => should_stop
            /\ \A s \in Slots : segments[s[1]][s[2]].instruction_location < FirstEnd)
    /\ [][should_stop =>
            /\ index' = index
            /\ should_stop'
            /\ current_segment_start' = current_segment_start
            /\ Shape(segments') = Shape(segments)]_vars

\* The program was assembled to the end although elements follow its end
\* directive.
C14_Witness ==
    /\ Done
    /\ should_stop
    /\ FirstEnd # 0
    /\ FirstEnd < Len(instructions)
    /\ instructions[FirstEnd + 1].type \in {"Org", "Nop"}

\* A step that assembles an org directive.
OrgRuns == InLoop /\ instructions[index].type = "Org" /\ index' = index + 1

\* A step that assembles an element that appends slots.
AppendRuns ==
    InLoop /\ instructions[index].type \in {"Nop", "Bra", "Mov1"} /\ index' = index + 1

IsPrefix(s, t) == Len(s) <= Len(t) /\ SubSeq(t, 1, Len(s)) = s

\* C15 as stated: org N makes the segment at N current, and a segment that
\* exists at N keeps the slots appended to it before.
C15_Original ==
    [][OrgRuns =>
        /\ current_segment_start' = instructions[index].address
        /\ instructions[index].address \in DOMAIN segments =>
               IsPrefix(segments[instructions[index].address],
                        segments'[instructions[index].address])]_vars

\* C15: org N makes the segment at N current and empty, whether or not a
\* segment existed at N, and leaves the other segments alone; an append adds
\* its slots behind those of the current segment and touches no other segment.
C15_OrgReplacesSegment ==
    [][/\ OrgRuns =>
            /\ current_segment_start' = instructions[index].address
            /\ DOMAIN segments' = DOMAIN segments \cup {instructions[index].address}
            /\ segments'[instructions[index].address] = <<>>
            /\ \A o \in DOMAIN segments :
                   o # instructions[index].address => segments'[o] = segments[o]
       /\ AppendRuns =>
            /\ current_segment_start' = current_segment_start
            /\ DOMAIN segments' = DOMAIN segments
            /\ IsPrefix(segments[current_segment_start],
                        segments'[current_segment_start])
            /\ Len(segments'[current_segment_start]) >
                   Len(segments[current_segment_start])
            /\ \A o \in DOMAIN segments :
                   o # current_segment_start => segments'[o] = segments[o]]_vars

\* The slots of the element at position k are in no segment although the loop
\* assembled it: an org directive replaced the segment that held them.
Discarded(k) ==
    /\ k < index
    /\ instructions[k].type \in {"Nop", "Bra", "Mov1"}
    /\ \A s \in Slots : segments[s[1]][s[2]].instruction_location # k

\* An org directive named the origin of a segment that held slots, and an
\* append followed it.
C15_Witness ==
    /\ Done
    /\ \E k \in 1..Len(instructions) :
        /\ Discarded(k)
        /\ \E s \in Slots : segments[s[1]][s[2]].instruction_location > k

----------------------------------------------------------------------------
(* The sample_table directive (assemble_directive, directive.rs).          *)

\* Most bytes appended to the current segment before the directive.
MaxTableFill == 4

\* Origins of the current segment: around the page boundaries.
TableOrigins == {0, 1, 253, 255, 256, 65280}
\* The byte the model appends ahead of the directive.
FillByte == 1

\* AssembledData::current_location
CurrentLocation(segment, origin) == Len(segment) + origin

\* AssembledData::append_bytes
AppendBytes(segment, bytes) == segment \o bytes

\* `(current_address + 0x100) & !0xff`
TargetAddressNextPage(current_address) == current_address + 256
TargetAddress(current_address) == ((current_address + 256) \div 256) * 256

\* `std::iter::repeat(0).take(missing_bytes as usize).collect()`
Space(missing_bytes) == [i \in 1..missing_bytes |-> 0]

\* The bytes assemble_sample_table emits: the directory of a program without
\* BRR samples.
SampleTableEntries == <<>>

TableOk == [kind |-> "Ok", memory_address |-> 0]
MissingSegment == [kind |-> "MissingSegment", memory_address |-> 0]
UnalignedSampleTable(memory_address) ==
    [kind |-> "UnalignedSampleTable", memory_address |-> memory_address]

\* DirectiveValue::SampleTable: the segment, the start address of the table
\* and the result the directive leaves behind.
SampleTableDirective(segment, origin, auto_align) ==
    LET current_address == CurrentLocation(segment, origin)
        unaligned == current_address % 256 # 0
        missing_bytes == TargetAddress(current_address) - current_address
        aligned_segment ==
            IF auto_align /\ unaligned
            THEN AppendBytes(segment, Space(missing_bytes))
            ELSE segment
    IN  IF origin = NoSegment
        THEN [segment |-> segment, start |-> NoLocation, result |-> MissingSegment]
        ELSE IF ~auto_align /\ unaligned
        THEN [segment |-> segment, start |-> NoLocation,
              result |-> UnalignedSampleTable(current_address)]
        ELSE [segment |-> AppendBytes(aligned_segment, SampleTableEntries),
              start |-> CurrentLocation(aligned_segment, origin),
              result |-> TableOk]

TableInit ==
    /\ AsmIdle
    /\ SliceIdle
    /\ IncludeIdle
    /\ LateIdle
    /\ LabelIdle
    /\ MacroIdle
    /\ DpIdle
    /\ table_origin \in TableOrigins \cup {NoSegment}
    /\ table_segment = <<>>
    /\ table_auto_align \in BOOLEAN
    /\ table_start = NoLocation
    /\ table_result = NoTableResult

\* An element ahead of the directive appends a byte.
TableAppend ==
    /\ table_result = NoTableResult
    /\ table_origin # NoSegment
    /\ Len(table_segment) < MaxTableFill
    /\ table_segment' = AppendBytes(table_segment, <<FillByte>>)
    /\ UNCHANGED <<table_origin, table_auto_align, table_start, table_result>>
    /\ UNCHANGED <<asm_vars, slice_vars, include_vars, label_vars, macro_vars, dp_vars, late_vars>>

AssembleSampleTable ==
    /\ table_result = NoTableResult
    /\ LET after == SampleTableDirective(table_segment, table_origin, table_auto_align) IN
        /\ table_segment' = after.segment
        /\ table_start' = after.start
        /\ table_result' = after.result
    /\ UNCHANGED <<table_origin, table_auto_align>>
    /\ UNCHANGED <<asm_vars, slice_vars, include_vars, label_vars, macro_vars, dp_vars, late_vars>>

TableNext ==
    \/ TableAppend
    \/ AssembleSampleTable

TableSpec == TableInit /\ [][TableNext]_vars

\* A step that assembles the directive with a current segment.
SampleTableRuns ==
    /\ table_result = NoTableResult
    /\ table_result' # NoTableResult
    /\ table_origin # NoSegment

----------------------------------------------------------------------------
(* The global label list: get_global_label in its three revisions, the     *)
(* labels fill_in_reference_links creates for relative anchors and the     *)
(* labels split_into_segments creates for BRR samples (sema/mod.rs).       *)

\* Most labels the list holds, most relative anchors of one file and the
\* longest content handed to split_into_segments.
MaxGlobals == 2
MaxAnchors == 1
MaxContentLen == 2

LabelVariants == {"sema", "parser", "parser_rs"}
\* Names a program gives to its labels.
LabelNames == {"main", "brr_sample_0"}
\* Source offsets of label uses and of relative anchors.
LabelSpans == {0, 9}
AnchorOffsets == {3 * k : k \in 1..MaxAnchors}
AnchorIds == {1}
LabelFiles == {"a", "b"}
UsageKinds == {"AsAddress", "AsDefinition"}

\* Label::new; GlobalLabel { name, location: None, span, used_as_address, .. }
NewLabel(name, span, used_as_address) ==
    [name |-> name, span |-> span, used_as_address |-> used_as_address]

\* `.iter_mut().find(|reference| reference.read().name == name)`: the position
\* of the first label of that name, or NoHandle.
Find(labels, name) ==
    IF \E i \in 1..Len(labels) : labels[i].name = name
    THEN Min({i \in 1..Len(labels) : labels[i].name = name})
    ELSE NoHandle

\* `if usage_kind == AsAddress && !used_as_address { used_as_address = true; }`
MarkUsedAsAddressAssigning(label, usage_kind) ==
    [label EXCEPT !.used_as_address = (usage_kind = "AsAddress")]
MarkUsedAsAddress(label, usage_kind) ==
    IF usage_kind = "AsAddress" /\ ~label.used_as_address
    THEN [label EXCEPT !.used_as_address = TRUE]
    ELSE label

\* `if usage_kind == AsDefinition { span = span; }`
OverrideSpanAlways(label, span, usage_kind) == [label EXCEPT !.span = span]
OverrideSpan(label, span, usage_kind) ==
    IF usage_kind = "AsDefinition" THEN [label EXCEPT !.span = span] ELSE label

\* Environment::get_global_label of sema/mod.rs: the list and the position of
\* the returned label.
GetGlobalLabelSema(labels, name, span, usage_kind) ==
    LET found == Find(labels, name) IN
    IF found # NoHandle
    THEN [globals |-> [labels EXCEPT ![found] =
                          OverrideSpan(MarkUsedAsAddress(@, usage_kind), span, usage_kind)],
          handle |-> found]
    ELSE [globals |-> Append(labels, NewLabel(name, span, usage_kind = "AsAddress")),
          handle |-> Len(labels) + 1]

\* Environment::get_global_label of parser/mod.rs.
GetGlobalLabelParser(labels, name, span, usage_kind) ==
    LET found == Find(labels, name) IN
    IF found # NoHandle
    THEN [globals |-> [labels EXCEPT ![found] =
                          LET marked == IF usage_kind = "AsAddress" /\ ~@.used_as_address
                                        THEN [@ EXCEPT !.used_as_address = TRUE]
                                        ELSE @
                          IN  IF usage_kind = "AsDefinition"
                              THEN [marked EXCEPT !.span = span]
                              ELSE marked],
          handle |-> found]
    ELSE [globals |-> Append(labels, NewLabel(name, span, usage_kind = "AsAddress")),
          handle |-> Len(labels) + 1]

\* Environment::get_global_label of parser.rs, which takes the flag itself.
GetGlobalLabelParserRs(labels, name, span, used_as_address) ==
    LET found == Find(labels, name) IN
    IF found # NoHandle
    THEN [globals |-> IF used_as_address /\ ~labels[found].used_as_address
                      THEN [labels EXCEPT ![found].used_as_address = TRUE]
                      ELSE labels,
          handle |-> found]
    ELSE [globals |-> Append(labels, NewLabel(name, span, used_as_address)),
          handle |-> Len(labels) + 1]

\* The call in the revision that is running; the callers of parser.rs pass
\* true for a label in operand position and false for a definition.
GetGlobalLabel(v, labels, name, span, usage_kind) ==
    CASE v = "sema" -> GetGlobalLabelSema(labels, name, span, usage_kind)
      [] v = "parser" -> GetGlobalLabelParser(labels, name, span, usage_kind)
      [] v = "parser_rs" ->
            GetGlobalLabelParserRs(labels, name, span, usage_kind = "AsAddress")

\* A relative anchor (`-` or `+` label) of a file.
Anchor(direction, id, offset) == [direction |-> direction, id |-> id, offset |-> offset]

\* `format!("ref_-_{}_{}", id, span.offset())` and `format!("ref_+_{}_{}", ..)`
RelativeLabelName(anchor) ==
    (IF anchor.direction = "Backward" THEN "ref_-_" ELSE "ref_+_")
        \o ToString(anchor.id) \o "_" \o ToString(anchor.offset)

\* The label created for an anchor: used_as_address is set at once.
GlobalForRelative(anchor) == NewLabel(RelativeLabelName(anchor), anchor.offset, TRUE)

Reverse(s) == [i \in 1..Len(s) |-> s[Len(s) + 1 - i]]

AnchorsOf(anchors, direction) ==
    SelectSeq(anchors, LAMBDA a : a.direction = direction)

\* AssemblyFile::fill_in_reference_links: the labels of the backward anchors
\* are pushed in content order, then those of the forward anchors in reverse
\* content order; none of them is looked up first.
FillInReferenceLinks(labels, anchors) ==
    LET backward == AnchorsOf(anchors, "Backward")
        forward == Reverse(AnchorsOf(anchors, "Forward"))
    IN  labels \o [i \in 1..Len(backward) |-> GlobalForRelative(backward[i])]
               \o [i \in 1..Len(forward) |-> GlobalForRelative(forward[i])]

\* The anchors a file can hold, in content order (ascending offset).
AnchorLists ==
    {anchors \in UNION {[1..n -> {Anchor(d, id, o) : d \in {"Backward", "Forward"},
                                                   id \in AnchorIds,
                                                   o \in AnchorOffsets}] :
                           n \in 0..MaxAnchors} :
        \A i \in 1..(Len(anchors) - 1) : anchors[i].offset < anchors[i + 1].offset}

\* `format!("brr_sample_{}", brr_label_number)`
BrrLabelName(brr_label_number) == "brr_sample_" \o ToString(brr_label_number)

\* One iteration of the loop of split_into_segments over an element of the
\* kinds Label, Instruction, Brr (a brr directive with directory: true) and
\* End; the span of an element is its position.
SplitStep(st, element, span) ==
    IF st.stopped THEN st
    ELSE CASE element = "Label" -> [st EXCEPT !.current_labels = @ + 1]
           [] element = "End" -> [st EXCEPT !.stopped = TRUE]
           [] element = "Brr" ->
                IF st.current_labels = 0
                THEN [st EXCEPT
                        !.globals = Append(@, NewLabel(BrrLabelName(st.brr_label_number),
                                                       span, TRUE)),
                        !.brr_label_number = @ + 1,
                        !.current_labels = 0]
                ELSE [st EXCEPT !.current_labels = 0]
           [] OTHER -> [st EXCEPT !.current_labels = 0]

RECURSIVE SplitFold(_, _, _)
SplitFold(st, elements, i) ==
    IF i > Len(elements) THEN st
    ELSE SplitFold(SplitStep(st, elements[i], i), elements, i + 1)

\* AssemblyFile::split_into_segments, as far as the label list goes.
SplitIntoSegments(labels, elements) ==
    SplitFold([globals |-> labels, brr_label_number |-> 0, current_labels |-> 0,
               stopped |-> FALSE], elements, 1).globals

SplitContents ==
    UNION {[1..n -> {"Label", "Instruction", "Brr", "End"}] : n \in 0..MaxContentLen}

LabelInit ==
    /\ AsmIdle
    /\ SliceIdle
    /\ IncludeIdle
    /\ LateIdle
    /\ TableIdle
    /\ MacroIdle
    /\ DpIdle
    /\ label_variant \in LabelVariants
    /\ globals = <<>>
    /\ label_call = NoCall
    /\ label_handle = NoHandle
    /\ label_repeated = FALSE
    /\ linked_files = {}
    /\ split_done = FALSE

\* The parser looks a label up.
LookUpLabel ==
    \E name \in LabelNames, span \in LabelSpans, usage_kind \in UsageKinds :
        LET call == [name |-> name, span |-> span, usage_kind |-> usage_kind]
            after == GetGlobalLabel(label_variant, globals, name, span, usage_kind)
        IN  /\ Len(after.globals) <= MaxGlobals
            /\ globals' = after.globals
            /\ label_handle' = after.handle
            /\ label_call' = call
            /\ label_repeated' = (label_call = call)
            /\ UNCHANGED <<label_variant, linked_files, split_done>>
            /\ UNCHANGED <<asm_vars, slice_vars, include_vars, table_vars, macro_vars, dp_vars, late_vars>>

\* parse() links the references of a file it has parsed.
LinkReferences ==
    /\ label_variant = "sema"
    /\ \E file \in LabelFiles \ linked_files, anchors \in AnchorLists :
        LET after == FillInReferenceLinks(globals, anchors) IN
            /\ Len(after) <= MaxGlobals
            /\ globals' = after
            /\ linked_files' = linked_files \cup {file}
    /\ label_call' = NoCall
    /\ label_handle' = NoHandle
    /\ label_repeated' = FALSE
    /\ UNCHANGED <<label_variant, split_done>>
    /\ UNCHANGED <<asm_vars, slice_vars, include_vars, table_vars, macro_vars, dp_vars, late_vars>>

\* The content of the main file is split into segments.
SplitSegments ==
    /\ label_variant = "sema"
    /\ ~split_done
    /\ \E elements \in SplitContents :
        LET after == SplitIntoSegments(globals, elements) IN
            /\ Len(after) <= MaxGlobals
            /\ globals' = after
    /\ split_done' = TRUE
    /\ label_call' = NoCall
    /\ label_handle' = NoHandle
    /\ label_repeated' = FALSE
    /\ UNCHANGED <<label_variant, linked_files>>
    /\ UNCHANGED <<asm_vars, slice_vars, include_vars, table_vars, macro_vars, dp_vars, late_vars>>

LabelNext ==
    \/ LookUpLabel
    \/ LinkReferences
    \/ SplitSegments

LabelSpec == LabelInit /\ [][LabelNext]_vars

\* C17: in every reachable state of the environment no two entries of the
\* global label list have the same name.
C17_Original ==
    \A i, j \in 1..Len(globals) : globals[i].name = globals[j].name => i = j

\* C18: used_as_address is monotonic: a label whose flag is true keeps its place
\* in the list and its flag through every step, whatever the usage kind of a
\* get_global_label call, in all three revisions.
C18_UsedAsAddressIsMonotonic ==
    [][\A i \in 1..Len(globals) :
          globals[i].used_as_address =>
              /\ i <= Len(globals')
              /\ globals'[i].name = globals[i].name
              /\ globals'[i].used_as_address]_vars

\* A label that was used as an address has since been looked up as a
\* definition.
C18_Witness ==
    /\ label_call.usage_kind = "AsDefinition"
    /\ label_handle # NoHandle
    /\ globals[label_handle].used_as_address

\* A step that is a call of get_global_label in one of the revisions that take
\* a usage kind.
LookUpRuns == label_call' # NoCall /\ label_variant \in {"sema", "parser"}

\* C19: get_global_label is an idempotent lookup-or-insert: it returns the
\* first label of the given name, appending one if there is none and leaving
\* all other labels alone; a call that repeats the arguments of the call before
\* it changes nothing and returns the same label; with AsDefinition the
\* label's span becomes the given span; with AsAddress used_as_address becomes
\* true and the span of an existing label stays.
C19_IdempotentLookupOrInsert ==
    [][LookUpRuns =>
        LET call == label_call'
            existing == Find(globals, call.name)
        IN  /\ label_handle' = Find(globals', call.name)
            /\ label_handle' # NoHandle
            /\ existing # NoHandle =>
                   /\ label_handle' = existing
                   /\ Len(globals') = Len(globals)
            /\ existing = NoHandle =>
                   /\ label_handle' = Len(globals) + 1
                   /\ Len(globals') = Len(globals) + 1
            /\ \A i \in 1..Len(globals) : i # label_handle' => globals'[i] = globals[i]
            /\ label_call = call => globals' = globals /\ label_handle' = label_handle
            /\ call.usage_kind = "AsDefinition" =>
                   globals'[label_handle'].span = call.span
            /\ call.usage_kind = "AsAddress" =>
                   /\ globals'[label_handle'].used_as_address
                   /\ existing # NoHandle =>
                          globals'[label_handle'].span = globals[existing].span]_vars

\* The same definition was looked up twice in a row, at a span that differs
\* from the one the label was created with.
C19_Witness ==
    /\ label_repeated
    /\ label_variant = "parser"
    /\ label_call.usage_kind = "AsDefinition"
    /\ globals[label_handle].span = label_call.span
    /\ globals[label_handle].used_as_address

----------------------------------------------------------------------------
(* AssemblyFile::expand_user_macros (sema/mod.rs; parser/mod.rs holds the   *)
(* same loop over ProgramElement::Macro).                                   *)

\* Longest macro body and longest content handed to expand_user_macros.
MaxBodyLen == 1
MaxMacroContentLen == 2
\* options.maximum_macro_expansion_depth()
MaximumMacroExpansionDepth == 2

\* The macros the file defines and the number of their formal arguments.
DefinedMacros == {"m", "n"}
FormalArguments(name) == IF name = "m" THEN 0 ELSE 1

\* Program elements: an instruction, or a call with a number of arguments.
MacroInstruction == [kind |-> "Instruction", macro_name |-> "", arguments |-> 0]
UserDefinedMacroCall(macro_name, arguments) ==
    [kind |-> "UserDefinedMacroCall", macro_name |-> macro_name, arguments |-> arguments]

\* A call of m, a call of n, a call of n without its argument and a call of a
\* macro nobody defines.
MacroElements ==
    {MacroInstruction, UserDefinedMacroCall("m", 0), UserDefinedMacroCall("n", 1),
     UserDefinedMacroCall("n", 0), UserDefinedMacroCall("u", 0)}

MacroBodies == UNION {[1..n -> MacroElements] : n \in 0..MaxBodyLen}
MacroContents == UNION {[1..n -> MacroElements] : n \in 0..MaxMacroContentLen}

IsCall(element) == element.kind = "UserDefinedMacroCall"

\* `self.content.splice(index ..= index, inserted_body)`
Splice(elements, i, inserted_body) ==
    SubSeq(elements, 1, i) \o inserted_body \o SubSeq(elements, i + 2, Len(elements))

\* `.map(|end_index| if end_index >= index { end_index + body_length } else { end_index })`
ShiftEndIndices(end_stack, i, body_length) ==
    [k \in 1..Len(end_stack) |->
        IF end_stack[k] >= i THEN end_stack[k] + body_length ELSE end_stack[k]]

\* `macro_end_stack.drain_filter(|end_index| *end_index < index)`
DrainFilter(end_stack, i) == SelectSeq(end_stack, LAMBDA end_index : ~(end_index < i))

\* `continue`: the loop goes on at the first element of the inserted body.
ContinueBehindBody(i, body_length) == i + body_length
ContinueAt(i, body_length) == i

MacroInit ==
    /\ AsmIdle
    /\ SliceIdle
    /\ IncludeIdle
    /\ LateIdle
    /\ TableIdle
    /\ LabelIdle
    /\ DpIdle
    /\ user_macros \in [DefinedMacros -> [arguments : {0, 1}, body : MacroBodies]]
    /\ \A name \in DefinedMacros : user_macros[name].arguments = FormalArguments(name)
    /\ macro_source \in MacroContents
    /\ macro_content = macro_source
    /\ macro_index = 0
    /\ macro_end_stack = <<>>
    /\ macro_result = NoMacroResult

\* `while index < self.content.len()`
InMacroLoop == macro_result = NoMacroResult /\ macro_index < Len(macro_content)

\* `let element = &mut self.content[index];`
CurrentElement == macro_content[macro_index + 1]

AtCall == InMacroLoop /\ IsCall(CurrentElement)

\* The loop ends with an error or with Ok(()).
Return(outcome) ==
    /\ macro_result' = outcome
    /\ UNCHANGED <<user_macros, macro_source, macro_content, macro_index, macro_end_stack>>
    /\ UNCHANGED <<asm_vars, slice_vars, include_vars, table_vars, label_vars, dp_vars, late_vars>>

\* Any element that is not a call.
SkipElement ==
    /\ InMacroLoop
    /\ ~IsCall(CurrentElement)
    /\ macro_index' = macro_index + 1
    /\ macro_end_stack' = DrainFilter(macro_end_stack, macro_index + 1)
    /\ UNCHANGED <<user_macros, macro_source, macro_content, macro_result>>
    /\ UNCHANGED <<asm_vars, slice_vars, include_vars, table_vars, label_vars, dp_vars, late_vars>>

\* `if macro_end_stack.len() > maximum_macro_expansion_depth`
RejectRecursion ==
    /\ AtCall
    /\ Len(macro_end_stack) > MaximumMacroExpansionDepth
    /\ Return("RecursiveMacroUse")

\* `user_macros.get(macro_name)` finds nothing.
RejectUndefined ==
    /\ AtCall
    /\ ~(Len(macro_end_stack) > MaximumMacroExpansionDepth)
    /\ CurrentElement.macro_name \notin DOMAIN user_macros
    /\ Return("UndefinedUserMacro")

\* `formal_arguments.len() != actual_arguments.len()`
RejectArguments ==
    /\ AtCall
    /\ ~(Len(macro_end_stack) > MaximumMacroExpansionDepth)
    /\ CurrentElement.macro_name \in DOMAIN user_macros
    /\ user_macros[CurrentElement.macro_name].arguments # CurrentElement.arguments
    /\ Return("IncorrectNumberOfMacroArguments")

\* The call is replaced by the body of the macro.
ExpandCall ==
    /\ AtCall
    /\ ~(Len(macro_end_stack) > MaximumMacroExpansionDepth)
    /\ CurrentElement.macro_name \in DOMAIN user_macros
    /\ user_macros[CurrentElement.macro_name].arguments = CurrentElement.arguments
    /\ LET inserted_body == user_macros[CurrentElement.macro_name].body
           body_length == Len(inserted_body)
       IN  /\ macro_content' = Splice(macro_content, macro_index, inserted_body)
           /\ macro_end_stack' =
                  Append(ShiftEndIndices(macro_end_stack, macro_index, body_length),
                         macro_index + body_length)
           /\ macro_index' = ContinueAt(macro_index, body_length)
    /\ UNCHANGED <<user_macros, macro_source, macro_result>>
    /\ UNCHANGED <<asm_vars, slice_vars, include_vars, table_vars, label_vars, dp_vars, late_vars>>

\* The loop has reached the end of the content.
FinishExpansion ==
    /\ macro_result = NoMacroResult
    /\ ~(macro_index < Len(macro_content))
    /\ Return("Ok")

MacroNext ==
    \/ SkipElement
    \/ RejectRecursion
    \/ RejectUndefined
    \/ RejectArguments
    \/ ExpandCall
    \/ FinishExpansion

MacroSpec == MacroInit /\ [][MacroNext]_vars

\* The loop is sequential code: it always takes its next step.
FairMacroSpec == MacroSpec /\ WF_vars(MacroNext)

\* A call that names a defined macro with the right number of arguments.
WellFormed(call) ==
    /\ call.macro_name \in DOMAIN user_macros
    /\ user_macros[call.macro_name].arguments = call.arguments

CallsIn(elements) == {elements[k] : k \in {j \in 1..Len(elements) : IsCall(elements[j])}}

\* The macros the elements call.
Callees(elements) == {call.macro_name : call \in {c \in CallsIn(elements) : WellFormed(c)}}

\* The macros called by the given macros or, through their bodies, by those.
RECURSIVE MacroClosure(_)
MacroClosure(names) ==
    LET more == names \cup UNION {Callees(user_macros[name].body) : name \in names}
    IN  IF more = names THEN names ELSE MacroClosure(more)

\* The macros the file's content calls, directly or through other macros.
CalledMacros == MacroClosure(Callees(macro_source))

\* A called macro whose body calls the macro itself, directly or through others.
CallsRecursiveMacro ==
    \E name \in CalledMacros : name \in MacroClosure(Callees(user_macros[name].body))

\* Some call that can be met is undefined or has the wrong number of arguments.
CallsIllFormed ==
    \E call \in CallsIn(macro_source) \cup
                UNION {CallsIn(user_macros[name].body) : name \in CalledMacros} :
        ~WellFormed(call)

MacroReturned == macro_result # NoMacroResult

\* C20: expand_user_macros terminates for all macro definitions and calls;
\* RecursiveMacroUse is returned at a call met with more than
\* maximum_macro_expansion_depth entries on the end stack; when the content
\* calls a macro whose body calls the macro itself, directly or through other
\* macros, the expansion never succeeds and, unless an undefined macro or a
\* wrong argument count is met, ends in RecursiveMacroUse; on success no
\* UserDefinedMacroCall remains in the content.
C20_ExpansionTerminates ==
    /\ <>MacroReturned
    /\ [](macro_result = "RecursiveMacroUse" =>
            /\ IsCall(CurrentElement)
            /\ Len(macro_end_stack) > MaximumMacroExpansionDepth)
    /\ [](MacroReturned /\ CallsRecursiveMacro =>
            /\ macro_result # "Ok"
            /\ ~CallsIllFormed => macro_result = "RecursiveMacroUse")
    /\ [](macro_result = "Ok" => CallsIn(macro_content) = {})

\* m calls n and n calls m, and the expansion of a call of m has ended in
\* RecursiveMacroUse.
C20_Witness ==
    /\ macro_result = "RecursiveMacroUse"
    /\ UserDefinedMacroCall("m", 0) \in CallsIn(macro_source)
    /\ Callees(user_macros["m"].body) = {"n"}
    /\ Callees(user_macros["n"].body) = {"m"}

----------------------------------------------------------------------------
(* AssemblyFile::optimize_direct_page_labels (sema/mod.rs).                 *)

\* Most elements of the segments and the largest iteration limit.
MaxDpElements == 4
MaxCoercionPasses == 3

\* Origins of the first segment, and the origin of a second segment.
DpOrigins == {0, 252, 253, 254}
DpSecondOrigins == {512}
DpLabels == {"a", "b"}
NoAddress == -1
\* The first address behind the direct page: `Some(0x100 ..)`.
DirectPageEnd == 256

\* The elements of a segment: a label, an instruction with one operand that
\* is the address of a label (in long or in direct-page addressing) and a
\* directive that emits one byte.
LabelElement(name) == [kind |-> "Label", reference |-> name, addressing |-> "none"]
InstructionElement(reference, addressing) ==
    [kind |-> "Instruction", reference |-> reference, addressing |-> addressing]
ByteDirective == [kind |-> "Directive", reference |-> "", addressing |-> "none"]

\* ProgramElement::assembled_size: opcode and a two-byte or one-byte operand.
AssembledSize(element) ==
    CASE element.kind = "Label" -> 0
      [] element.kind = "Directive" -> 1
      [] element.kind = "Instruction" -> IF element.addressing = "long" THEN 3 ELSE 2

\* The offset the scan reaches ahead of the element at position i.
RECURSIVE OffsetBefore(_, _)
OffsetBefore(elements, i) ==
    IF i <= 1 THEN 0
    ELSE OffsetBefore(elements, i - 1) + AssembledSize(elements[i - 1])

\* `opcode.has_long_address() && !references.is_empty() &&
\*  opcode.can_use_direct_page_addressing()`
Eligible(element) == element.kind = "Instruction" /\ element.addressing = "long"

ReferencedObject(address, segment_start, kind, index_in_segment, reference, is_short) ==
    [address |-> address, segment_start |-> segment_start, kind |-> kind,
     index_in_segment |-> index_in_segment, reference |-> reference,
     is_short |-> is_short]

\* Step 1 for one segment, from the element at position i on.
RECURSIVE SegmentObjects(_, _, _)
SegmentObjects(elements, segment_start, i) ==
    IF i > Len(elements) THEN <<>>
    ELSE LET element == elements[i]
             address == OffsetBefore(elements, i) + segment_start
             here == IF element.kind = "Label"
                     THEN <<ReferencedObject(address, segment_start, "Reference", i - 1,
                                             element.reference, FALSE)>>
                     ELSE IF Eligible(element)
                     THEN <<ReferencedObject(address, segment_start, "Instruction", i - 1,
                                             element.reference, FALSE)>>
                     ELSE <<>>
         IN  here \o SegmentObjects(elements, segment_start, i + 1)

\* Step 1: the labels and the eligible instructions of all segments, in the
\* order of the map.
RECURSIVE CollectObjects(_, _)
CollectObjects(segs, origins) ==
    IF origins = <<>> THEN <<>>
    ELSE SegmentObjects(segs[Head(origins)], Head(origins), 1)
         \o CollectObjects(segs, Tail(origins))

\* The address offset an object starts with: 0 in a new segment.
OffsetAt(st, object) ==
    IF st.last_segment # NoAddress /\ object.segment_start # st.last_segment
    THEN 0
    ELSE st.address_offset

\* Step 2, one object: every instruction is assumed short.
AssumeShortStep(st, i) ==
    LET object == st.objects[i]
        address_offset == OffsetAt(st, object)
        moved == [object EXCEPT !.address = @ + address_offset]
    IN  [objects |-> [st.objects EXCEPT ![i] =
                         IF object.kind = "Instruction"
                         THEN [moved EXCEPT !.is_short = TRUE]
                         ELSE moved],
         address_offset |-> IF object.kind = "Instruction"
                            THEN address_offset - 1
                            ELSE address_offset,
         last_segment |-> object.segment_start,
         change |-> FALSE]

\* `find_value_for_reference`: the address of the first collected label of
\* that name, from the copy made when the pass began.
FindValueForReference(all_references, queried_reference) ==
    IF \E k \in 1..Len(all_references) : all_references[k].reference = queried_reference
    THEN all_references[Min({k \in 1..Len(all_references) :
                                all_references[k].reference = queried_reference})].address
    ELSE NoAddress

\* `matches!(value.value_using_resolver(..), Some(0x100 ..) | None)`
OutsideDirectPage(value) == value = NoAddress \/ value >= DirectPageEnd

\* Step 3, one object of one pass.
CoercionStepToggling(st, i, all_references) ==
    LET object == st.objects[i]
        address_offset == OffsetAt(st, object)
        moved == [object EXCEPT !.address = @ + address_offset]
        reverts == /\ object.kind = "Instruction"
                   /\ OutsideDirectPage(
                          FindValueForReference(all_references, object.reference))
    IN  [objects |-> [st.objects EXCEPT ![i] =
                         IF reverts THEN [moved EXCEPT !.is_short = ~@] ELSE moved],
         address_offset |-> IF reverts THEN address_offset + 1 ELSE address_offset,
         last_segment |-> object.segment_start,
         change |-> st.change \/ reverts]
CoercionStep(st, i, all_references) ==
    LET object == st.objects[i]
        address_offset == OffsetAt(st, object)
        moved == [object EXCEPT !.address = @ + address_offset]
        reverts == /\ object.kind = "Instruction"
                   /\ OutsideDirectPage(
                          FindValueForReference(all_references, object.reference))
    IN  [objects |-> [st.objects EXCEPT ![i] =
                         IF reverts THEN [moved EXCEPT !.is_short = FALSE] ELSE moved],
         address_offset |-> IF reverts THEN address_offset + 1 ELSE address_offset,
         last_segment |-> object.segment_start,
         change |-> st.change \/ reverts]

RECURSIVE AssumeShortFold(_, _)
AssumeShortFold(st, i) ==
    IF i > Len(st.objects) THEN st ELSE AssumeShortFold(AssumeShortStep(st, i), i + 1)

RECURSIVE CoercionFold(_, _, _)
CoercionFold(st, i, all_references) ==
    IF i > Len(st.objects) THEN st
    ELSE CoercionFold(CoercionStep(st, i, all_references), i + 1, all_references)

StartOfPass(objects) ==
    [objects |-> objects, address_offset |-> 0, last_segment |-> NoAddress,
     change |-> FALSE]

\* Step 2 as a whole.
AssumeShort(objects) == AssumeShortFold(StartOfPass(objects), 1).objects

\* One pass of step 3: the objects and whether anything changed.
CoercionPass(objects) ==
    LET all_references == SelectSeq(objects, LAMBDA object : object.kind = "Reference")
    IN  CoercionFold(StartOfPass(objects), 1, all_references)

\* Operand::force_to_direct_page_addressing
ForceToDirectPageAddressing(element) == [element EXCEPT !.addressing = "direct_page"]

\* Step 4: the instructions that are still marked short are rewritten.
RewriteShort(segs, objects) ==
    [o \in DOMAIN segs |->
        [i \in 1..Len(segs[o]) |->
            IF \E k \in 1..Len(objects) :
                   /\ objects[k].kind = "Instruction"
                   /\ objects[k].is_short
                   /\ objects[k].segment_start = o
                   /\ objects[k].index_in_segment = i - 1
            THEN ForceToDirectPageAddressing(segs[o][i])
            ELSE segs[o][i]]]

DpElements ==
    {LabelElement(l) : l \in DpLabels}
        \cup {InstructionElement(l, "long") : l \in DpLabels}
        \cup {ByteDirective}

DpElementLists(n) == UNION {[1..k -> DpElements] : k \in 0..n}

\* The labels a sequence of elements defines, with repetitions counted.
Definitions(elements, name) ==
    Cardinality({i \in 1..Len(elements) : elements[i] = LabelElement(name)})

\* One segment, or two with the second at one of DpSecondOrigins: at most
\* MaxDpElements elements, every label defined at most once.
DpSegmentMaps ==
    {segs \in UNION {{(o :> first) : first \in DpElementLists(MaxDpElements)}
                     \cup {(o :> first) @@ (p :> <<second>>) :
                              first \in DpElementLists(MaxDpElements - 1),
                              second \in DpElements,
                              p \in DpSecondOrigins} : o \in DpOrigins} :
        \A name \in DpLabels :
            /\ \A o \in DOMAIN segs : Definitions(segs[o], name) <= 1
            /\ \A o, p \in DOMAIN segs :
                   o # p => Definitions(segs[o], name) + Definitions(segs[p], name) <= 1}

DpInit ==
    /\ AsmIdle
    /\ SliceIdle
    /\ IncludeIdle
    /\ LateIdle
    /\ TableIdle
    /\ LabelIdle
    /\ MacroIdle
    /\ dp_segments \in DpSegmentMaps
    /\ max_coercion_passes \in 1..MaxCoercionPasses
    /\ referenced_objects = <<>>
    /\ iteration = 1
    /\ change = TRUE
    /\ dp_pc = "collect"

DpOthersUnchanged ==
    UNCHANGED <<asm_vars, slice_vars, include_vars, table_vars, label_vars, macro_vars,
                late_vars>>

\* Steps 1 and 2.
CollectAndAssumeShort ==
    /\ dp_pc = "collect"
    /\ referenced_objects' =
           AssumeShort(CollectObjects(dp_segments, SortedOrigins(DOMAIN dp_segments)))
    /\ dp_pc' = "iterate"
    /\ UNCHANGED <<dp_segments, max_coercion_passes, iteration, change>>
    /\ DpOthersUnchanged

\* `while change && iteration <= max_coercion_passes`: one pass.
CoercionIteration ==
    /\ dp_pc = "iterate"
    /\ change /\ iteration <= max_coercion_passes
    /\ LET after == CoercionPass(referenced_objects) IN
        /\ referenced_objects' = after.objects
        /\ change' = after.change
    /\ iteration' = iteration + 1
    /\ UNCHANGED <<dp_segments, max_coercion_passes, dp_pc>>
    /\ DpOthersUnchanged

\* Step 4, once the loop has ended.
ApplyDirectPage ==
    /\ dp_pc = "iterate"
    /\ ~(change /\ iteration <= max_coercion_passes)
    /\ dp_segments' = RewriteShort(dp_segments, referenced_objects)
    /\ dp_pc' = "done"
    /\ UNCHANGED <<max_coercion_passes, referenced_objects, iteration, change>>
    /\ DpOthersUnchanged

DpNext ==
    \/ CollectAndAssumeShort
    \/ CoercionIteration
    \/ ApplyDirectPage

DpSpec == DpInit /\ [][DpNext]_vars

\* The address a label has in the layout the segments stand for: the origin of
\* its segment plus the sizes of the elements ahead of it; NoAddress for a label
\* nothing defines.
FinalAddress(name) ==
    IF \E o \in DOMAIN dp_segments : Definitions(dp_segments[o], name) > 0
    THEN LET o == CHOOSE p \in DOMAIN dp_segments : Definitions(dp_segments[p], name) > 0
             i == CHOOSE k \in 1..Len(dp_segments[o]) :
                      dp_segments[o][k] = LabelElement(name)
         IN  o + OffsetBefore(dp_segments[o], i)
    ELSE NoAddress

\* C11: when optimize_direct_page_labels has finished, the operand of every
\* instruction it rewrote to direct-page addressing evaluates to a value in
\* 0..0xFF with each label at the address it has in the final layout.
C11_Original ==
    dp_pc = "done" =>
        \A o \in DOMAIN dp_segments : \A i \in 1..Len(dp_segments[o]) :
            dp_segments[o][i].addressing = "direct_page" =>
                /\ FinalAddress(dp_segments[o][i].reference) >= 0
                /\ FinalAddress(dp_segments[o][i].reference) < DirectPageEnd

----------------------------------------------------------------------------
(* Properties of the value and of the number of the resolution passes. *)

\* C24: execute_label_resolution_pass returns true if and only if a label
\* gained a location or the value of a slot changed during that pass.
C24_Original ==
    last_pass.ran =>
        (last_pass.returned <=> (last_pass.label_gained \/ last_pass.slot_changed))

\* C25: assemble runs execute_label_resolution_pass at most MAX_PASSES times.
C25_Original == passes_executed <= MAX_PASSES

\* The positions of the slots of a segments map.
SlotsIn(segs) == UNION {{<<o, i>> : i \in 1..Len(segs[o])} : o \in DOMAIN segs}
SlotAt(segs, p) == segs[p[1]][p[2]]
Unresolved(datum) == datum.value.kind # "Resolved"
RefersToLabel(datum) == Unresolved(datum) /\ datum.value.number.kind = "Label"

\* Position p is the same as q or earlier in the traversal order.
NotAfter(p, q) == p[1] < q[1] \/ (p[1] = q[1] /\ p[2] <= q[2])

\* The positions of the slots a label is attached to.
DefinitionsOf(segs, label) == {p \in SlotsIn(segs) : SlotAt(segs, p).label = label}

AllReferencesAttached(segs) ==
    \A p \in SlotsIn(segs) :
        RefersToLabel(SlotAt(segs, p)) =>
            DefinitionsOf(segs, FirstLabel(SlotAt(segs, p).value.number)) # {}

\* The slot at p refers to nothing, or to a label attached at p or earlier.
BackwardAt(segs, p) ==
    RefersToLabel(SlotAt(segs, p)) =>
        \E q \in DefinitionsOf(segs, FirstLabel(SlotAt(segs, p).value.number)) :
            NotAfter(q, p)

\* C26: when every referenced label is attached to a slot, the first pass
\* gives every attached label its location and resolves exactly the slots
\* that refer to nothing or to a label attached at the same or an earlier
\* position; the slots with forward references stay open in the first pass,
\* and the second pass resolves every slot.
C26_ForwardReferencesNeedOneMorePass ==
    [][(PassRuns /\ AllReferencesAttached(segments)) =>
          /\ passes_executed = 0 =>
                /\ \A p \in SlotsIn(segments) :
                      /\ SlotAt(segments, p).label # NoLabel =>
                             location'[SlotAt(segments, p).label] # NoLocation
                      /\ BackwardAt(segments, p) <=> ~Unresolved(SlotAt(segments', p))
          /\ passes_executed = 1 =>
                \A p \in SlotsIn(segments) : ~Unresolved(SlotAt(segments', p))]_vars

\* A forward reference was open after the first pass and the second pass has
\* run: a slot for a branch to a label attached to a later slot.
C26_Witness ==
    /\ passes_executed = 2
    /\ AllReferencesAttached(segments)
    /\ \E p \in SlotsIn(segments) :
          /\ EmittedForLabel(p[1], p[2])
          /\ \A q \in DefinitionsOf(segments,
                    instructions[SlotAt(segments, p).instruction_location].operand.label) :
                 ~NotAfter(q, p)
          /\ DefinitionsOf(segments,
                 instructions[SlotAt(segments, p).instruction_location].operand.label) # {}

----------------------------------------------------------------------------
(* Properties of the passes of optimize_direct_page_labels. *)

CoercionRuns == dp_pc = "iterate" /\ iteration' = iteration + 1
Objects == 1..Len(referenced_objects)
IsInstruction(k) == referenced_objects[k].kind = "Instruction"

\* Some instruction changes from short to long in this step.
SomeReverts ==
    \E k \in Objects :
        /\ IsInstruction(k)
        /\ referenced_objects[k].is_short
        /\ ~referenced_objects'[k].is_short

\* C27: in the passes of the iteration, the is_short flag of an instruction
\* only changes from true to false; an instruction that is long stays long.
C27_ShortOnlyBecomesLong ==
    [][CoercionRuns =>
          /\ Len(referenced_objects') = Len(referenced_objects)
          /\ \A k \in Objects :
                IsInstruction(k) /\ ~referenced_objects[k].is_short =>
                    ~referenced_objects'[k].is_short]_vars

\* Two passes have run, one instruction is long and another is still short.
C27_Witness ==
    /\ dp_pc = "iterate"
    /\ iteration = 3
    /\ \E k \in Objects : IsInstruction(k) /\ ~referenced_objects[k].is_short
    /\ \E k \in Objects : IsInstruction(k) /\ referenced_objects[k].is_short

\* The address of the object with every eligible instruction long.
AllLongAddress(k) ==
    referenced_objects[k].segment_start
        + OffsetBefore(dp_segments[referenced_objects[k].segment_start],
                       referenced_objects[k].index_in_segment + 1)

\* The instructions ahead of the object in its segment that are marked short.
ShortBefore(k) ==
    {j \in 1..(k - 1) :
        /\ IsInstruction(j)
        /\ referenced_objects[j].is_short
        /\ referenced_objects[j].segment_start = referenced_objects[k].segment_start}

\* C28: after step 2 and after every pass of the iteration, the tentative
\* address of each collected object is its all-long address minus the number
\* of the instructions ahead of it in its segment that are marked short.
C28_Original ==
    dp_pc = "iterate" =>
        \A k \in Objects :
            referenced_objects[k].address = AllLongAddress(k) - Cardinality(ShortBefore(k))

\* C29: a pass in which no instruction changes from short to long is the last
\* one, and there are at most max_coercion_passes passes.
C29_Original ==
    /\ [](iteration - 1 <= max_coercion_passes)
    /\ [][(CoercionRuns /\ ~SomeReverts) =>
             ~(change' /\ iteration' <= max_coercion_passes)]_vars

----------------------------------------------------------------------------
(* The end stack of expand_user_macros and calls that are not nested. *)

\* C30: expand_user_macros returns RecursiveMacroUse only for a call nested
\* in more than maximum_macro_expansion_depth enclosing expansions; with the
\* macros of the model that takes a macro whose body calls the macro itself,
\* directly or through the other macro, so a content whose calls reach no
\* such macro never ends in RecursiveMacroUse.
C30_Original ==
    macro_result = "RecursiveMacroUse" => CallsRecursiveMacro

----------------------------------------------------------------------------
(* The auto-trim of AssembledData::assemble_brr (assembler/directive.rs).   *)

\* Longest sample sequence handed to the trim.
MaxSamples == 4
\* The sample values of the inputs.
SampleValues == {-1, 0, 1}
SampleSequences == UNION {[1..n -> SampleValues] : n \in 0..MaxSamples}

\* `into_iter().skip_while(|sample| sample == &value).collect()`
RECURSIVE SkipWhileEqual(_, _)
SkipWhileEqual(samples, value) ==
    IF samples # <<>> /\ Head(samples) = value
    THEN SkipWhileEqual(Tail(samples), value)
    ELSE samples

\* The body of `if auto_trim && !sample_data.is_empty()`.
AutoTrim(sample_data) ==
    LET first_sample == sample_data[1]
        last_sample == sample_data[Len(sample_data)]
        without_start == SkipWhileEqual(sample_data, first_sample)
        without_end == SkipWhileEqual(Reverse(without_start), last_sample)
        with_first == Append(without_end, first_sample)
    IN  Append(Reverse(with_first), last_sample)

TrimIfRequested(auto_trim, sample_data) ==
    IF auto_trim /\ sample_data # <<>> THEN AutoTrim(sample_data) ELSE sample_data

TrimInit ==
    /\ AsmIdle
    /\ SliceIdle
    /\ IncludeIdle
    /\ TableIdle
    /\ LabelIdle
    /\ MacroIdle
    /\ DpIdle
    /\ LockIdle
    /\ trim_samples \in SampleSequences
    /\ trim_auto \in BOOLEAN
    /\ trim_result = NoTrimResult

\* assemble_brr between slice_data_if_necessary and encode_to_brr.
TrimSamples ==
    /\ ~trim_result.done
    /\ trim_result' = [done |-> TRUE,
                        data |-> TrimIfRequested(trim_auto, trim_samples)]
    /\ UNCHANGED <<trim_samples, trim_auto>>
    /\ UNCHANGED <<asm_vars, slice_vars, include_vars, table_vars, label_vars,
                   macro_vars, dp_vars, lock_vars>>

TrimNext == TrimSamples

TrimSpec == TrimInit /\ [][TrimNext]_vars

\* The length of the run of samples equal to the first one at the start.
LeadingRun(samples) == Len(samples) - Len(SkipWhileEqual(samples, samples[1]))
TrailingRun(samples) == LeadingRun(Reverse(samples))

Trimmed == trim_result.done /\ trim_auto /\ trim_samples # <<>>

\* C22: for every non-empty sample sequence the auto-trim returns the first
\* sample, the samples between the leading run of the first sample and the
\* trailing run of the last sample, and the last sample; a constant sequence
\* stays constant; the result is never longer than the input.
C22_Original ==
    Trimmed =>
        /\ Len(trim_result.data) <= Len(trim_samples)
        /\ Len(trim_result.data) >= 1
        /\ IF LeadingRun(trim_samples) = Len(trim_samples)
           THEN \A i \in 1..Len(trim_result.data) : trim_result.data[i] = trim_samples[1]
           ELSE trim_result.data =
                    <<trim_samples[1]>>
                    \o SubSeq(trim_samples, LeadingRun(trim_samples) + 1,
                              Len(trim_samples) - TrailingRun(trim_samples))
                    \o <<trim_samples[Len(trim_samples)]>>

----------------------------------------------------------------------------
(* The locks Environment::parse and resolve_source_includes take            *)
(* (sema/mod.rs): the RwLock of the environment, named "env", and the       *)
(* RwLock of every AssemblyFile, named like the file.  One thread runs the  *)
(* nested parse calls; a blocking request it cannot be granted because of a *)
(* guard it holds itself leaves it stuck for good.                          *)

\* Most include directives in the root file.
MaxRootIncludes == 2

\* The include directives of the root file, and those of an included file:
\* none or one.
RootIncludeLists == UNION {[1..k -> Files] : k \in 0..MaxRootIncludes}
NestedIncludeLists == {<<>>} \cup {<<file>> : file \in Files}

Holds(guards, lock) ==
    lock \in guards.write \/ \E i \in 1..Len(guards.read) : guards.read[i] = lock

\* RwLock::read and RwLock::read_recursive: granted unless the lock is
\* write-locked.
LkRead(guards, lock) ==
    IF guards.blocked THEN guards
    ELSE IF lock \in guards.write THEN [guards EXCEPT !.blocked = TRUE]
    ELSE [guards EXCEPT !.read = Append(@, lock)]

\* RwLock::write: granted when no guard at all is held on the lock.
LkWrite(guards, lock) ==
    IF guards.blocked THEN guards
    ELSE IF Holds(guards, lock) THEN [guards EXCEPT !.blocked = TRUE]
    ELSE [guards EXCEPT !.write = @ \cup {lock}]

\* The drop of a read guard: a temporary at the end of its statement.
DropRead(guards, lock) ==
    IF guards.blocked \/ ~\E i \in 1..Len(guards.read) : guards.read[i] = lock
    THEN guards
    ELSE LET last == CHOOSE i \in 1..Len(guards.read) :
                         /\ guards.read[i] = lock
                         /\ \A j \in (i + 1)..Len(guards.read) : guards.read[j] # lock
         IN  [guards EXCEPT !.read = SubSeq(@, 1, last - 1)
                                       \o SubSeq(@, last + 1, Len(@))]

\* `drop(file)`, or the end of the scope of a write guard.
DropWrite(guards, lock) ==
    IF guards.blocked THEN guards ELSE [guards EXCEPT !.write = @ \ {lock}]

\* An error leaves every active parse call with `?`: their guards are dropped.
RECURSIVE Unwind(_, _)
Unwind(guards, st) ==
    IF st = <<>> THEN guards
    ELSE Unwind(DropWrite(guards, st[Len(st)]), SubSeq(st, 1, Len(st) - 1))

\* `file.try_read_recursive()`: never waits; the guard it may return is a
\* temporary.
LkProbeBlocking(guards, file) ==
    [guards |-> DropRead(LkRead(guards, file), file), readable |-> TRUE]
LkProbe(guards, file) == [guards |-> guards, readable |-> file \notin guards.write]

\* The `if let` at the head of Environment::parse: the guards afterwards and
\* "New", "Ok" or "IncludeCycle".
LkLookup(guards, file, fs, cont) ==
    LET with_env == LkRead(guards, "env")
        found == LkProbe(with_env, file)
        again == LkProbe(found.guards, file)
    IN  IF file \notin fs
        THEN [guards |-> DropRead(with_env, "env"), outcome |-> "New"]
        ELSE IF ~found.readable
        THEN [guards |-> DropRead(found.guards, "env"), outcome |-> "IncludeCycle"]
        ELSE [guards |-> DropRead(again.guards, "env"),
              outcome |-> AlreadyParsedOutcome("sema", again.readable,
                                               HasUnresolvedSourceIncludes(file, cont))]

\* Environment::parse from the construction of the file to the second
\* `rc_file.write()`.
LkInsertFile(guards, file) ==
    LkWrite(DropWrite(LkWrite(DropWrite(LkWrite(guards, file), file), "env"), "env"),
            file)

\* `lex(included_code.clone(), &*environment.read().options)?`
LkLex(guards) == DropRead(LkRead(guards, "env"), "env")

\* `self.content.splice(index ..= index, included_file.read().content.clone())`
LkSplice(guards, included_file) == DropRead(LkRead(guards, included_file), included_file)

\* expand_user_macros reads the options, fill_in_reference_links pushes the
\* label of a relative anchor to the globals, then `drop(file)`.
LkFinishFile(guards, file) ==
    DropWrite(DropWrite(LkWrite(DropRead(LkRead(guards, "env"), "env"), "env"), "env"),
              file)

LockInit ==
    /\ AsmIdle
    /\ SliceIdle
    /\ IncludeIdle
    /\ TableIdle
    /\ LabelIdle
    /\ MacroIdle
    /\ DpIdle
    /\ TrimIdle
    /\ lk_includes \in {inc \in [Files -> RootIncludeLists] :
                          \A file \in Files \ {Root} :
                              inc[file] \in NestedIncludeLists}
    /\ lk_files = {}
    /\ lk_content = [file \in Files |-> <<>>]
    /\ lk_stack = <<>>
    /\ lk_pc = "call"
    /\ lk_locks = NoGuards
    /\ lk_result = NoLockResult

LockOthersUnchanged ==
    UNCHANGED <<asm_vars, slice_vars, include_vars, table_vars, label_vars,
                macro_vars, dp_vars, trim_vars>>

\* The file the next call of Environment::parse is for.
LkTarget == IF lk_stack = <<>> THEN Root ELSE Head(lk_content[lk_stack[Len(lk_stack)]])

\* The thread waits for a lock it holds itself.
Stuck(guards) ==
    /\ lk_locks' = guards
    /\ lk_pc' = "blocked"
    /\ UNCHANGED <<lk_includes, lk_files, lk_content, lk_stack, lk_result>>

\* parse of a file that is not in the table, up to resolve_source_includes.
LkParseNew ==
    /\ lk_pc = "call"
    /\ LkLookup(lk_locks, LkTarget, lk_files, lk_content).outcome = "New"
    /\ LET guards == LkInsertFile(
                         LkLookup(lk_locks, LkTarget, lk_files, lk_content).guards,
                         LkTarget)
       IN  IF guards.blocked THEN Stuck(guards)
           ELSE /\ lk_locks' = guards
                /\ lk_files' = lk_files \cup {LkTarget}
                /\ lk_content' = [lk_content EXCEPT ![LkTarget] = lk_includes[LkTarget]]
                /\ lk_stack' = Append(lk_stack, LkTarget)
                /\ lk_pc' = "includes"
                /\ UNCHANGED <<lk_includes, lk_result>>
    /\ LockOthersUnchanged

\* resolve_source_includes at an IncludeSource element: the file is lexed and
\* parse is about to be called.
LkInclude ==
    /\ lk_pc = "includes"
    /\ lk_content[lk_stack[Len(lk_stack)]] # <<>>
    /\ LET guards == LkLex(lk_locks)
       IN  IF guards.blocked THEN Stuck(guards)
           ELSE /\ lk_locks' = guards
                /\ lk_pc' = "call"
                /\ UNCHANGED <<lk_includes, lk_files, lk_content, lk_stack, lk_result>>
    /\ LockOthersUnchanged

\* parse returns a file of the table, and the caller splices its content in.
LkParseKnown ==
    /\ lk_pc = "call"
    /\ LkLookup(lk_locks, LkTarget, lk_files, lk_content).outcome = "Ok"
    /\ LET guards == LkSplice(
                         LkLookup(lk_locks, LkTarget, lk_files, lk_content).guards,
                         LkTarget)
       IN  IF guards.blocked THEN Stuck(guards)
           ELSE /\ lk_locks' = guards
                /\ lk_content' = [lk_content EXCEPT
                                     ![lk_stack[Len(lk_stack)]] =
                                         lk_content[LkTarget] \o Tail(@)]
                /\ lk_pc' = "includes"
                /\ UNCHANGED <<lk_includes, lk_files, lk_stack, lk_result>>
    /\ LockOthersUnchanged

\* parse fails with IncludeCycle, and every caller passes the error on.
LkParseCycle ==
    /\ lk_pc = "call"
    /\ LkLookup(lk_locks, LkTarget, lk_files, lk_content).outcome = "IncludeCycle"
    /\ LET guards == Unwind(LkLookup(lk_locks, LkTarget, lk_files, lk_content).guards,
                            lk_stack)
       IN  IF guards.blocked THEN Stuck(guards)
           ELSE /\ lk_locks' = guards
                /\ lk_stack' = <<>>
                /\ lk_result' = "IncludeCycle"
                /\ lk_pc' = "done"
                /\ UNCHANGED <<lk_includes, lk_files, lk_content>>
    /\ LockOthersUnchanged

\* No include is left: the rest of parse runs, the file is returned, and the
\* including file splices its content in.
LkFinish ==
    /\ lk_pc = "includes"
    /\ lk_content[lk_stack[Len(lk_stack)]] = <<>>
    /\ LET file == lk_stack[Len(lk_stack)]
           finished == LkFinishFile(lk_locks, file)
           guards == IF Len(lk_stack) = 1 THEN finished ELSE LkSplice(finished, file)
       IN  IF guards.blocked THEN Stuck(guards)
           ELSE /\ lk_locks' = guards
                /\ lk_stack' = SubSeq(lk_stack, 1, Len(lk_stack) - 1)
                /\ IF Len(lk_stack) = 1
                   THEN /\ lk_result' = "Ok"
                        /\ lk_pc' = "done"
                        /\ lk_content' = lk_content
                   ELSE /\ lk_result' = lk_result
                        /\ lk_pc' = "includes"
                        /\ lk_content' = [lk_content EXCEPT
                                             ![lk_stack[Len(lk_stack) - 1]] = Tail(@)]
                /\ UNCHANGED <<lk_includes, lk_files>>
    /\ LockOthersUnchanged

LockNext ==
    \/ LkParseNew
    \/ LkInclude
    \/ LkParseKnown
    \/ LkParseCycle
    \/ LkFinish

LockSpec == LockInit /\ [][LockNext]_vars

\* The single thread keeps running unless it waits for a lock.
FairLockSpec == LockSpec /\ WF_vars(LockNext)

\* The files of the active parse calls are the write-locked ones.
StackIsWriteLocked == lk_locks.write = {lk_stack[i] : i \in 1..Len(lk_stack)}

\* C21: during a top-level parse with nested source includes the thread never
\* waits for a lock it holds itself: no blocking request for the write lock
\* of the environment is made under a guard of the environment, no blocking
\* request is made on a file the thread has write-locked (between the steps
\* exactly the files being parsed are write-locked and no guard of the
\* environment is held), and the parse returns.
C21_NoLockBlocksForever ==
    /\ [](~lk_locks.blocked /\ lk_pc # "blocked")
    /\ [](lk_pc # "idle" => StackIsWriteLocked /\ ~Holds(lk_locks, "env"))
    /\ <>(lk_result # NoLockResult)

\* Three parse calls are nested: the innermost file was inserted under the
\* write lock of the environment while two including files were write-locked.
C21_Witness ==
    /\ Len(lk_stack) = 3
    /\ lk_pc = "includes"
    /\ Cardinality(lk_locks.write) = 3
    /\ lk_files = Files

====
